---- MODULE Spec2Model ----
(***************************************************************************)
(* MCP2221 USB-HID to I2C bridge (src/adapter/mcp2221.go, first build      *)
(* variant, lines 1-735): connection state machine, watchdog goroutine,    *)
(* transport lock and the exchange sequences of the Engine operations.     *)
(***************************************************************************)
EXTENDS Integers, Sequences, FiniteSets, TLC

(* ---------------------------- bounds ----------------------------------- *)
\* number of concurrent caller goroutines
NProc == 2
\* bytes delivered by a short HID read
ShortN == 2

Procs == 1..NProc

\* holders of d.mx other than the callers
Free == 0
WdHolder == 0 - 1
InitHolder == 0 - 2

(* ------------------------- program constants --------------------------- *)
StatusNew == 0
StatusInitialized == 1
StatusConnecting == 2
StatusConnected == 3

\* length of the request and response buffers (make([]byte, 64))
FrameLen == 64
\* sentinel data-length value rejected by ReadFromAddr
InvalidLen == 127
\* response byte 1: I2C engine busy / slave data read failure
RespBusy == 1
RespSlaveErr == 65

OpWrite == 144
OpReadReq == 145
OpFetch == 64
OpStatus == 16
OpReset == 112
OpReadGPIO == 81
OpGetSettings == 176
OpSetSettings == 177

ErrNil == "nil"
ErrNotConnected == "ErrNotConnected"
ErrNoReconnectChannel == "ErrNoReconnectChannel"
ErrBusBusy == "ErrBusBusy"
ErrBusBusyReleaseFailed == "ErrBusBusy; could not release bus"
ErrCommandFailed == "ErrCommandFailed"
ErrCommandUnsupported == "ErrCommandUnsupported"
ErrCanceled == "context canceled"
ErrWrite == "could not write request"
ErrShortWrite == "short write"
ErrRead == "could not read response"
ErrShortRead == "short read"
ErrSlaveRead == "error reading the i2c slave data"
ErrInvalidSize == "invalid data size byte"

\* errors.Is(e, target) for the error values above: the %w verb keeps the
\* wrapped sentinel identifiable, %v does not.
ErrorIs(e, target) ==
    \/ e = target
    \/ e = ErrBusBusyReleaseFailed /\ target = ErrBusBusy

(* ----------------------------- inputs ---------------------------------- *)
\* a buffer is the sequence of its bytes: byte i is element i + 1
Idx == 0..(FrameLen - 1)
Byte(f, i) == f[i + 1]
Zero64 == [k \in 1..FrameLen |-> 0]

\* I2C addresses the callers use
Addrs == {26}
\* payloads given to WriteToAddr
WritePayloads == {<<>>, <<7, 9>>}
\* lengths of the buffers given to ReadFromAddr
ReadLens == {1, 127}
\* initial content of every byte of a caller's read buffer
BufInit == 85
\* byte 1 and byte 3 of the responses the device may produce
RespCodes == {0, RespBusy, RespSlaveErr}
RespSizes == {1, InvalidLen}

\* data byte the device puts at offset i of a response
DataByte(i) == 160 + i

MkResp(b1, b3) ==
    [k \in 1..FrameLen |-> IF k - 1 = 1 THEN b1
                           ELSE IF k - 1 = 3 THEN b3
                           ELSE IF k - 1 >= 4 THEN DataByte(k - 1) ELSE 0]

Responses == {MkResp(b1, b3) : b1 \in RespCodes, b3 \in RespSizes}

EngineOps == {"WriteToAddr", "ReadFromAddr", "Release", "ReleaseBus", "Status",
              "Reset", "ReadGPIO", "GetGPIOParameters", "SetGPIOParameters"}

NoArg == [address |-> 0, buffer |-> <<>>]

\* the arguments an operation may be called with
ArgsOf(o) ==
    IF o = "WriteToAddr"
      THEN {[address |-> a, buffer |-> b] : a \in Addrs, b \in WritePayloads}
    ELSE IF o = "ReadFromAddr"
      THEN {[address |-> a, buffer |-> [j \in 1..n |-> BufInit]] :
               a \in Addrs, n \in ReadLens}
    ELSE {NoArg}

VARIABLES
    status,        \* d.status
    device,        \* d.device: "nil", "open", "stale" (unplugged), "closed"
    mx,            \* d.mx: Free, a caller p, WdHolder or InitHolder
    request,       \* d.request
    response,      \* d.response
    reconnectChan, \* d.reconnectChan: "nil", "open", "closed"
    wpc,           \* position of the watchdog goroutine started by Connect
    wsite,         \* call site of the connect() the watchdog is executing
    ipc,           \* position of an Init() call
    plugged,       \* hid.OpenFirst would succeed
    parentDone,    \* the ctx given to Connect is cancelled
    pc,            \* position of each caller
    op,            \* operation a caller is executing
    arg,           \* its arguments
    phase,         \* exchange of the operation: "main", "fetch", "release"
    buf,           \* the caller's buffer
    cancelled,     \* the caller's ctx is cancelled
    timerFired,    \* the time.After timer of the current guard delay fired
    result,        \* error returned
    wire,          \* device.Write / device.Read calls made by the operation
    xmx,           \* MCP23017.mx: Free or the goroutine holding it
    xpc,           \* position of each goroutine calling the MCP23017
    xop,           \* MCP23017 operation it is executing
    xi,            \* its loop counter i
    xerr,          \* its err variable
    xcalls,        \* calls it made on m.transport, with what they returned
    xarg,          \* the byte (inout, settings) the operation was given
    xsent,         \* the payloads of its WriteToAddr calls
    xres,          \* error the operation returns
    smx,           \* AGS02MA.mx: Free or the goroutine holding it
    sbuf,          \* AGS02MA.buf
    sgate,         \* AGS02MA.delayDone: the channel it holds
    sclosed,       \* channels made for delayDone that are closed
    selapsed,      \* channels whose delay has elapsed (the timer has fired)
    sdctx,         \* channels whose scheduleDelay was given a ctx now done
    spc,           \* position of each goroutine calling the AGS02MA
    sop,           \* AGS02MA operation it is executing
    sapi,          \* the method of AGS02MA it called
    sch,           \* ch, the channel its waitForDelay read from delayDone
    scancel,       \* its ctx is cancelled
    scalls,        \* calls the operation made on s.transport
    sval,          \* value the operation returns
    sres,          \* error the operation returns
    hpc,           \* position of the caller whose HID reports are followed
    hop,           \* Engine operation it is executing
    hphase,        \* exchange of the operation: "main", "fetch", "release"
    hcancel,       \* its ctx is cancelled
    hn,            \* number of operations it has called
    hq,            \* input reports queued in the handle, oldest first
    hgot,          \* reports the operation has read and interprets
    tpc,           \* position of the caller of waitForI2CTransfer
    taddr,         \* address it was given
    tcancel,       \* its ctx is cancelled
    ttimeout,      \* the timer of maxDelay has fired
    tpolls,        \* status exchanges it has completed
    tstatus,       \* status the last doGetStatus returned, or the nil one
    tres           \* error it returns

\* the MCP2221 bridge, its watchdog and its callers
bridgeVars == <<status, device, mx, request, response, reconnectChan, wpc,
                wsite, ipc, plugged, parentDone, pc, op, arg, phase, buf,
                cancelled, timerFired, result, wire>>

sharedVars == <<status, device, mx, request, response, reconnectChan>>
wdVars == <<wpc, wsite>>
envVars == <<plugged, parentDone>>
procVars == <<pc, op, arg, phase, buf, cancelled, timerFired, result, wire>>

\* the drivers built on the bus: an MCP23017 and an AGS02MA
expanderVars == <<xmx, xpc, xop, xi, xerr, xcalls, xarg, xsent, xres>>
sensorVars == <<smx, sbuf, sgate, sclosed, selapsed, sdctx, spc, sop, sapi,
                sch, scancel, scalls, sval, sres>>
\* the input reports of the HID handle, followed for one caller
linkVars == <<hpc, hop, hphase, hcancel, hn, hq, hgot>>
\* one call of waitForI2CTransfer
pollVars == <<tpc, taddr, tcancel, ttimeout, tpolls, tstatus, tres>>
driverVars == <<expanderVars, sensorVars, linkVars, pollVars>>

vars == <<bridgeVars, driverVars>>

(* ------------------------- frame construction -------------------------- *)
\* resetBuffer: zeroes every byte but the last one (i < len(buf)-1)
resetBuffer(b) ==
    [k \in 1..Len(b) |-> IF k - 1 < Len(b) - 1 THEN 0 ELSE b[k]]

\* the 16-bit value stored high byte first
PutUint16_BigEndian(b, off, v) ==
    [b EXCEPT ![off + 1] = (v % 65536) \div 256,
              ![off + 2] = (v % 65536) % 256]

\* binary.LittleEndian.PutUint16(b[off:off+2], uint16(v))
PutUint16(b, off, v) ==
    [b EXCEPT ![off + 1] = (v % 65536) % 256,
              ![off + 2] = (v % 65536) \div 256]

\* copy(b[off:], src): min(len(b)-off, len(src)) bytes
CopyInto(b, off, src) ==
    [k \in 1..Len(b) |-> IF k - 1 >= off /\ k - off <= Len(src)
                            THEN src[k - off] ELSE b[k]]

\* copy(buffer, d.response[4:])
CopyOut(buffer, resp) ==
    [j \in 1..Len(buffer) |-> IF j + 3 <= FrameLen - 1 THEN Byte(resp, j + 3)
                                                        ELSE buffer[j]]

\* WriteToAddr, request construction
BuildWrite(req, address, buffer) ==
    LET r0 == [resetBuffer(req) EXCEPT ![1] = OpWrite]
        r1 == PutUint16(r0, 1, Len(buffer))
        r2 == [r1 EXCEPT ![4] = (address * 2) % 256]
    IN  IF Len(buffer) > 0 THEN CopyInto(r2, 4, buffer) ELSE r2

\* ReadFromAddr, read-request construction
BuildReadRequest(req, address, n) ==
    LET r0 == [resetBuffer(req) EXCEPT ![1] = OpReadReq]
        r1 == PutUint16(r0, 1, n)
    IN  [r1 EXCEPT ![4] = (address * 2 + 1) % 256]

\* ReadFromAddr, fetch-data frame: only byte 0 is rewritten
BuildFetch(req) == [req EXCEPT ![1] = OpFetch]

\* releaseBus, request construction (request[0] = 0x10, request[2] = 0x10)
BuildRelease(req) == [resetBuffer(req) EXCEPT ![1] = OpStatus, ![3] = 16]

\* the first request of every other operation
BuildSimple(req, o) ==
    LET z == resetBuffer(req) IN
    IF o = "Status" THEN [z EXCEPT ![1] = OpStatus]
    ELSE IF o = "Reset"
      THEN [z EXCEPT ![1] = OpReset, ![2] = 171, ![3] = 205, ![4] = 239]
    ELSE IF o = "ReadGPIO" THEN [z EXCEPT ![1] = OpReadGPIO]
    ELSE IF o = "GetGPIOParameters"
      THEN [z EXCEPT ![1] = OpGetSettings, ![2] = 1]
    ELSE [z EXCEPT ![1] = OpSetSettings, ![2] = 1]

BuildMain(req, o, a) ==
    IF o = "WriteToAddr" THEN BuildWrite(req, a.address, a.buffer)
    ELSE IF o = "ReadFromAddr"
      THEN BuildReadRequest(req, a.address, Len(a.buffer))
    ELSE IF o \in {"Release", "ReleaseBus"} THEN BuildRelease(req)
    ELSE BuildSimple(req, o)

IsRelease(f) == Byte(f, 0) = OpStatus /\ Byte(f, 2) = 16

(* ---------------------------- transport -------------------------------- *)
\* results of device.Write / device.Read on a handle: an open handle may
\* transfer everything, part of the report or fail; a handle whose device
\* was unplugged fails; a closed handle is freed memory (any outcome).
Outcomes == {"ok", "short", "err"}
IoOutcomes(dev) ==
    IF dev = "stale" THEN {"err"} ELSE Outcomes

\* send: the error for an outcome of device.Write
sendErr(outcome) ==
    IF outcome = "ok" THEN ErrNil
    ELSE IF outcome = "short" THEN ErrShortWrite ELSE ErrWrite

\* receive: the error for an outcome of device.Read
receiveErr(outcome) ==
    IF outcome = "ok" THEN ErrNil
    ELSE IF outcome = "short" THEN ErrShortRead ELSE ErrRead

\* d.response after device.Read returned outcome with report r
Received(resp, outcome, r) ==
    IF outcome = "ok" THEN r
    ELSE IF outcome = "short"
      THEN [k \in 1..FrameLen |-> IF k <= ShortN THEN r[k] ELSE resp[k]]
    ELSE resp

(* --------------------------- Engine operations ------------------------- *)
\* a panic in any goroutine ends the process
Crashed == wpc = "crashed" \/ \E p \in Procs : pc[p] = "panic"
Running == ~Crashed

\* an operation that does not take d.mx
CanLock_NoLock(m) == TRUE

\* d.mx.Lock() returns only when nobody holds d.mx
CanLock(m) == m = Free

\* a connected check that only rejects a device that was never initialised
NotUsable_OnlyNew(s) == s = StatusNew

\* the connected check at the head of every Engine operation
NotUsable(s) == s # StatusConnected

\* where an operation goes after a successful send
AfterSend(o, ph) ==
    IF ph \in {"fetch", "release"} THEN "guard"
    ELSE IF o = "WriteToAddr" THEN "guard"
    ELSE IF o = "Reset" THEN "done"
    ELSE "recv"

\* releaseBus: what it returns to its caller when send failed with e
releaseBusErr(e) == e

\* releaseBus: the error it returns after the guard wait and the read
\* (err of waitAndReceive is assigned and not looked at)
releaseBusAfterWait(e) == ErrNil

\* ReadFromAddr without its "return sensors.ErrBusBusy"
AfterRelease_NoBusy(o, rel) ==
    IF o \in {"WriteToAddr", "ReadFromAddr"}
      THEN IF rel # ErrNil THEN ErrBusBusyReleaseFailed ELSE ErrNil
    ELSE rel

\* what the operation returns once releaseBus returned rel
AfterRelease(o, rel) ==
    IF o = "WriteToAddr"
      THEN IF rel # ErrNil THEN ErrBusBusyReleaseFailed ELSE ErrNil
    ELSE IF o = "ReadFromAddr"
      THEN IF rel # ErrNil THEN ErrBusBusyReleaseFailed ELSE ErrBusBusy
    ELSE rel

\* a check of the fetch-data response without the sentinel
FetchCheck_NoSentinel(resp, n) ==
    IF Byte(resp, 1) = RespSlaveErr THEN ErrSlaveRead
    ELSE IF Byte(resp, 3) # n THEN ErrInvalidSize
    ELSE ErrNil

\* ReadFromAddr: the check of the fetch-data response
FetchCheck(resp, n) ==
    IF Byte(resp, 1) = RespSlaveErr THEN ErrSlaveRead
    ELSE IF Byte(resp, 3) = InvalidLen \/ Byte(resp, 3) # n
      THEN ErrInvalidSize
    ELSE ErrNil

\* the result of an operation whose only exchange returned resp
SimpleCheck(o, resp) ==
    IF o = "Status" THEN ErrNil
    ELSE IF Byte(resp, 1) = RespBusy
      THEN IF o = "GetGPIOParameters" THEN ErrCommandUnsupported
                                      ELSE ErrCommandFailed
    ELSE ErrNil

Finish(p, e) ==
    /\ pc' = [pc EXCEPT ![p] = "done"]
    /\ result' = [result EXCEPT ![p] = e]

\* a caller enters an Engine operation and reaches d.mx.Lock()
Call(p) ==
    /\ Running
    /\ pc[p] = "idle"
    /\ pc' = [pc EXCEPT ![p] = "waiting"]
    /\ UNCHANGED <<sharedVars, wdVars, envVars, ipc, op, arg, phase, buf,
                   cancelled, timerFired, result, wire>>
    /\ UNCHANGED driverVars

\* operation o called with arguments a: d.mx.Lock(), the status check,
\* resetBuffers and the first request
BeginOp(p, o, a) ==
    /\ Running
    /\ pc[p] = "waiting"
    /\ CanLock(mx)
    /\ mx' = p
    /\ op' = [op EXCEPT ![p] = o]
    /\ arg' = [arg EXCEPT ![p] = a]
    /\ buf' = [buf EXCEPT ![p] = a.buffer]
    /\ IF NotUsable(status)
         THEN /\ Finish(p, ErrNotConnected)
              /\ UNCHANGED <<request, response, phase>>
         ELSE /\ request' = BuildMain(request, o, a)
              /\ response' = resetBuffer(response)
              /\ phase' = [phase EXCEPT
                   ![p] = IF o \in {"Release", "ReleaseBus"}
                            THEN "release" ELSE "main"]
              /\ pc' = [pc EXCEPT ![p] = "send"]
              /\ UNCHANGED result
    /\ UNCHANGED <<status, device, reconnectChan, wdVars, envVars, ipc,
                   cancelled, timerFired, wire>>
    /\ UNCHANGED driverVars

\* any Engine operation, with any of its arguments
Begin(p) ==
    /\ pc[p] = "waiting"
    /\ \E o \in EngineOps : \E a \in ArgsOf(o) : BeginOp(p, o, a)

\* send: d.device.Write(d.request)
Send(p) ==
    /\ Running
    /\ pc[p] = "send"
    /\ IF device = "nil"
         THEN /\ pc' = [pc EXCEPT ![p] = "panic"]
              /\ UNCHANGED <<result, wire, timerFired>>
         ELSE \E out \in IoOutcomes(device) :
              /\ wire' = [wire EXCEPT
                   ![p] = Append(@, [k |-> "w", f |-> request, n |-> out])]
              /\ timerFired' = [timerFired EXCEPT ![p] = FALSE]
              /\ IF out = "ok"
                   THEN IF AfterSend(op[p], phase[p]) = "done"
                          THEN Finish(p, ErrNil)
                          ELSE /\ pc' = [pc EXCEPT
                                    ![p] = AfterSend(op[p], phase[p])]
                               /\ UNCHANGED result
                   ELSE IF phase[p] = "release"
                          THEN Finish(p, AfterRelease(op[p],
                                           releaseBusErr(sendErr(out))))
                          ELSE Finish(p, sendErr(out))
    /\ UNCHANGED <<sharedVars, wdVars, envVars, ipc, op, arg, phase, buf,
                   cancelled>>
    /\ UNCHANGED driverVars

\* the time.After(delay) channel of waitAndReceive becomes ready
TimerFire(p) ==
    /\ Running
    /\ pc[p] = "guard"
    /\ ~timerFired[p]
    /\ timerFired' = [timerFired EXCEPT ![p] = TRUE]
    /\ UNCHANGED <<sharedVars, wdVars, envVars, ipc, pc, op, arg, phase, buf,
                   cancelled, result, wire>>
    /\ UNCHANGED driverVars

\* the ctx of the call is cancelled.  Only the guard select reads ctx, so
\* a cancellation at any earlier moment is the same as one at the start of
\* the guard delay.
Cancel(p) ==
    /\ Running
    /\ pc[p] = "guard"
    /\ ~cancelled[p]
    /\ cancelled' = [cancelled EXCEPT ![p] = TRUE]
    /\ UNCHANGED <<sharedVars, wdVars, envVars, ipc, pc, op, arg, phase, buf,
                   timerFired, result, wire>>
    /\ UNCHANGED driverVars

\* the cases of the select in waitAndReceive that are ready; Go picks one
\* of the ready cases at random
selectReady(t, c) ==
    (IF t THEN {"timer"} ELSE {}) \cup (IF c THEN {"cancel"} ELSE {})

\* waitAndReceive: the select on time.After(delay) and ctx.Done()
Guard(p) ==
    /\ Running
    /\ pc[p] = "guard"
    /\ \E b \in selectReady(timerFired[p], cancelled[p]) :
         IF b = "timer"
              THEN /\ pc' = [pc EXCEPT ![p] = "recv"]
                   /\ UNCHANGED result
              ELSE IF phase[p] = "release"
                     THEN Finish(p, AfterRelease(op[p],
                                      releaseBusAfterWait(ErrCanceled)))
                     ELSE Finish(p, ErrCanceled)
    /\ UNCHANGED <<sharedVars, wdVars, envVars, ipc, op, arg, phase, buf,
                   cancelled, timerFired, wire>>
    /\ UNCHANGED driverVars

\* receive: d.device.Read(d.response) ending with outcome out and report
\* r, and the code up to the next device call or the return
ReceiveFrom(p, out, r) ==
    /\ Running
    /\ pc[p] = "recv"
    /\ (device # "nil") => (out \in IoOutcomes(device))
    /\ IF device = "nil"
         THEN /\ pc' = [pc EXCEPT ![p] = "panic"]
              /\ UNCHANGED <<result, wire, request, response, phase, buf>>
         ELSE LET got == Received(response, out, r)
                  e == receiveErr(out)
                  o == op[p]
              IN
              /\ wire' = [wire EXCEPT
                   ![p] = Append(@, [k |-> "r", f |-> got, n |-> out])]
              /\ IF phase[p] = "release"
                   THEN /\ Finish(p, AfterRelease(o, releaseBusAfterWait(e)))
                        /\ response' = got
                        /\ UNCHANGED <<request, phase, buf>>
                 ELSE IF e # ErrNil
                   THEN /\ Finish(p, e)
                        /\ response' = got
                        /\ UNCHANGED <<request, phase, buf>>
                 ELSE IF o \in {"WriteToAddr", "ReadFromAddr"}
                         /\ phase[p] = "main" /\ Byte(got, 1) = RespBusy
                   THEN /\ request' = BuildRelease(request)
                        /\ response' = resetBuffer(got)
                        /\ phase' = [phase EXCEPT ![p] = "release"]
                        /\ pc' = [pc EXCEPT ![p] = "send"]
                        /\ UNCHANGED <<result, buf>>
                 ELSE IF o = "ReadFromAddr" /\ phase[p] = "main"
                   THEN /\ request' = BuildFetch(request)
                        /\ response' = resetBuffer(got)
                        /\ phase' = [phase EXCEPT ![p] = "fetch"]
                        /\ pc' = [pc EXCEPT ![p] = "send"]
                        /\ UNCHANGED <<result, buf>>
                 ELSE IF o = "ReadFromAddr"
                   THEN /\ Finish(p, FetchCheck(got, Len(buf[p])))
                        /\ response' = got
                        /\ buf' = [buf EXCEPT
                             ![p] = IF FetchCheck(got, Len(buf[p])) = ErrNil
                                      THEN CopyOut(buf[p], got) ELSE buf[p]]
                        /\ UNCHANGED <<request, phase>>
                 ELSE IF o = "WriteToAddr"
                   THEN /\ Finish(p, ErrNil)
                        /\ response' = got
                        /\ UNCHANGED <<request, phase, buf>>
                 ELSE /\ Finish(p, SimpleCheck(o, got))
                      /\ response' = got
                      /\ UNCHANGED <<request, phase, buf>>
    /\ UNCHANGED <<status, device, mx, reconnectChan, wdVars, envVars, ipc,
                   op, arg, cancelled, timerFired>>
    /\ UNCHANGED driverVars

\* receive, with any outcome and any report of the device
Receive(p) ==
    /\ pc[p] = "recv"
    /\ \E out \in Outcomes : \E r \in Responses : ReceiveFrom(p, out, r)

\* an operation whose return on cancellation skips the Unlock
Unlocked_NotWhenCancelled(m, e) == IF e = ErrCanceled THEN m ELSE Free

\* defer d.mx.Unlock(): d.mx after an operation returned e
Unlocked(m, e) == Free

\* the deferred d.mx.Unlock() and the return to the caller
Return(p) ==
    /\ Running
    /\ pc[p] = "done"
    /\ mx = p
    /\ mx' = Unlocked(mx, result[p])
    /\ pc' = [pc EXCEPT ![p] = "idle"]
    /\ op' = [op EXCEPT ![p] = "none"]
    /\ arg' = [arg EXCEPT ![p] = NoArg]
    /\ phase' = [phase EXCEPT ![p] = "main"]
    /\ buf' = [buf EXCEPT ![p] = <<>>]
    /\ cancelled' = [cancelled EXCEPT ![p] = FALSE]
    /\ timerFired' = [timerFired EXCEPT ![p] = FALSE]
    /\ result' = [result EXCEPT ![p] = ErrNil]
    /\ wire' = [wire EXCEPT ![p] = <<>>]
    /\ UNCHANGED <<status, device, request, response, reconnectChan, wdVars,
                   envVars, ipc>>
    /\ UNCHANGED driverVars

\* a Reconnect that does not look at d.reconnectChan before using it
ReconnectErr_NoNilCheck(ch) == ErrNil

\* Reconnect: what it returns for a d.reconnectChan that is not closed
ReconnectErr(ch) == IF ch = "nil" THEN ErrNoReconnectChannel ELSE ErrNil

\* a send on a buffered channel: taken whenever the watchdog has not
\* returned, to be received later
SignalTaken_Queued(ch, w) == ch = "open"

\* Reconnect: the send case of its select is taken only when the watchdog
\* is parked in its own select (the channel is unbuffered); otherwise the
\* default case runs
SignalTaken(ch, w) == ch = "open" /\ w = "select"

\* Reconnect: the nil check and the non-blocking send on d.reconnectChan,
\* call and return in one step.  A send on the channel the exiting
\* watchdog closed panics.
Reconnect(p) ==
    /\ Running
    /\ pc[p] = "idle"
    /\ IF reconnectChan = "closed"
         THEN /\ pc' = [pc EXCEPT ![p] = "panic"]
              /\ UNCHANGED wdVars
         ELSE /\ wpc' = IF SignalTaken(reconnectChan, wpc)
                          THEN "connect" ELSE wpc
              /\ wsite' = IF SignalTaken(reconnectChan, wpc)
                            THEN "signal" ELSE wsite
              /\ UNCHANGED pc
    /\ UNCHANGED <<sharedVars, envVars, ipc, op, arg, phase, buf, cancelled,
                   timerFired, result, wire>>
    /\ UNCHANGED driverVars

\* Reconnect, up to its return statement: the same step, with the error
\* it is about to return kept in result
ReconnectCall(p) ==
    /\ Running
    /\ pc[p] = "idle"
    /\ IF reconnectChan = "closed"
         THEN /\ pc' = [pc EXCEPT ![p] = "panic"]
              /\ UNCHANGED <<wdVars, result>>
         ELSE /\ wpc' = IF SignalTaken(reconnectChan, wpc)
                          THEN "connect" ELSE wpc
              /\ wsite' = IF SignalTaken(reconnectChan, wpc)
                            THEN "signal" ELSE wsite
              /\ pc' = [pc EXCEPT ![p] = "reconnected"]
              /\ result' = [result EXCEPT ![p] = ReconnectErr(reconnectChan)]
    /\ UNCHANGED <<sharedVars, envVars, ipc, op, arg, phase, buf, cancelled,
                   timerFired, wire>>
    /\ UNCHANGED driverVars

\* Reconnect returns to its caller
ReconnectReturn(p) ==
    /\ Running
    /\ pc[p] = "reconnected"
    /\ pc' = [pc EXCEPT ![p] = "idle"]
    /\ result' = [result EXCEPT ![p] = ErrNil]
    /\ UNCHANGED <<sharedVars, wdVars, envVars, ipc, op, arg, phase, buf,
                   cancelled, timerFired, wire>>
    /\ UNCHANGED driverVars

(* ------------------------- Connection Supervisor ----------------------- *)
\* IsConnected, as the watchdog tick uses it
IsConnected(s) == s = StatusConnected

\* a connect() that leaves the status at Connecting when the open fails
OpenedStatus_StuckConnecting(ok) ==
    IF ok THEN StatusConnected ELSE StatusConnecting

\* hid.OpenFirst: the handle and the status connect() and Init() end with
OpenedDevice(ok) == IF ok THEN "open" ELSE "nil"
OpenedStatus(ok) == IF ok THEN StatusConnected ELSE StatusInitialized

\* Init: Lock, status = StatusConnecting.  The programs call Init once, on
\* a new MCP2221, before any watchdog is started.
InitLock ==
    /\ Running
    /\ ipc = "idle"
    /\ wpc = "off"
    /\ status = StatusNew
    /\ mx = Free
    /\ mx' = InitHolder
    /\ status' = StatusConnecting
    /\ ipc' = "opening"
    /\ UNCHANGED <<device, request, response, reconnectChan, wdVars, envVars,
                   procVars>>
    /\ UNCHANGED driverVars

\* Init: hid.OpenFirst, the final status, the deferred Unlock, the return
InitOpen ==
    /\ Running
    /\ ipc = "opening"
    /\ device' = OpenedDevice(plugged)
    /\ status' = OpenedStatus(plugged)
    /\ mx' = Free
    /\ ipc' = "idle"
    /\ UNCHANGED <<request, response, reconnectChan, wdVars, envVars,
                   procVars>>
    /\ UNCHANGED driverVars

\* Connect: starts the watchdog goroutine and returns
Connect ==
    /\ Running
    /\ wpc = "off"
    /\ ipc = "idle"
    /\ wpc' = "spawned"
    /\ UNCHANGED <<sharedVars, wsite, envVars, ipc, procVars>>
    /\ UNCHANGED driverVars

\* watchdog: d.reconnectChan = make(chan struct{})
WdMakeChan ==
    /\ Running
    /\ wpc = "spawned"
    /\ reconnectChan' = "open"
    /\ wpc' = "setinit"
    /\ UNCHANGED <<status, device, mx, request, response, wsite, envVars,
                   ipc, procVars>>
    /\ UNCHANGED driverVars

\* watchdog: d.status = StatusInitialized (written without d.mx)
WdSetInit ==
    /\ Running
    /\ wpc = "setinit"
    /\ status' = StatusInitialized
    /\ wpc' = "connect"
    /\ wsite' = "start"
    /\ UNCHANGED <<device, mx, request, response, reconnectChan, envVars,
                   ipc, procVars>>
    /\ UNCHANGED driverVars

\* connect: Lock, status = StatusConnecting
WdConnectLock ==
    /\ Running
    /\ wpc = "connect"
    /\ mx = Free
    /\ mx' = WdHolder
    /\ status' = StatusConnecting
    /\ wpc' = "opening"
    /\ UNCHANGED <<device, request, response, reconnectChan, wsite, envVars,
                   ipc, procVars>>
    /\ UNCHANGED driverVars

\* connect: hid.OpenFirst, the final status, the deferred Unlock
WdOpen ==
    /\ Running
    /\ wpc = "opening"
    /\ device' = OpenedDevice(plugged)
    /\ status' = OpenedStatus(plugged)
    /\ mx' = Free
    /\ wpc' = "loop"
    /\ wsite' = "none"
    /\ UNCHANGED <<request, response, reconnectChan, envVars, ipc, procVars>>
    /\ UNCHANGED driverVars

\* watchdog: reaches the select with no case ready and parks
WdPark ==
    /\ Running
    /\ wpc = "loop"
    /\ wpc' = "select"
    /\ UNCHANGED <<sharedVars, wsite, envVars, ipc, procVars>>
    /\ UNCHANGED driverVars

\* watchdog: case <-tick.C
WdTick ==
    /\ Running
    /\ wpc \in {"loop", "select"}
    /\ wpc' = "isconn"
    /\ UNCHANGED <<sharedVars, wsite, envVars, ipc, procVars>>
    /\ UNCHANGED driverVars

\* watchdog: if d.IsConnected() { continue }; d.connect()
WdIsConnected ==
    /\ Running
    /\ wpc = "isconn"
    /\ mx = Free
    /\ wpc' = IF IsConnected(status) THEN "loop" ELSE "connect"
    /\ wsite' = IF IsConnected(status) THEN "none" ELSE "tick"
    /\ UNCHANGED <<sharedVars, envVars, ipc, procVars>>
    /\ UNCHANGED driverVars

\* watchdog: case <-ctx.Done(): d.device.Close(), return; the deferred
\* close(d.reconnectChan) runs in both cases.  Close on a nil *hid.Device
\* dereferences it.
WdExit ==
    /\ Running
    /\ wpc \in {"loop", "select"}
    /\ parentDone
    /\ reconnectChan' = "closed"
    /\ IF device = "nil"
         THEN /\ wpc' = "crashed"
              /\ UNCHANGED device
         ELSE /\ wpc' = "exited"
              /\ device' = "closed"
    /\ UNCHANGED <<status, mx, request, response, wsite, envVars, ipc,
                   procVars>>
    /\ UNCHANGED driverVars

(* ----------------------------- environment ----------------------------- *)
\* the device is plugged in
Plug ==
    /\ Running
    /\ ~plugged
    /\ plugged' = TRUE
    /\ UNCHANGED <<sharedVars, wdVars, parentDone, ipc, procVars>>
    /\ UNCHANGED driverVars

\* the device is unplugged: a handle opened on it stops working
Unplug ==
    /\ Running
    /\ plugged
    /\ plugged' = FALSE
    /\ device' = IF device = "open" THEN "stale" ELSE device
    /\ UNCHANGED <<status, mx, request, response, reconnectChan, wdVars,
                   parentDone, ipc, procVars>>
    /\ UNCHANGED driverVars

\* the ctx given to Connect is cancelled
ParentCancel ==
    /\ Running
    /\ ~parentDone
    /\ wpc # "off"
    /\ parentDone' = TRUE
    /\ UNCHANGED <<sharedVars, wdVars, plugged, ipc, procVars>>
    /\ UNCHANGED driverVars

(* ------------------------------ MCP23017 ------------------------------- *)
\* goroutines calling operations of one driver object
NUsers == 2
Users == 1..NUsers

\* retryLimit of an MCP23017 made by NewMCP23017
RetryLimit == 1

\* An error of a driver is the chain fmt.Errorf("...: %w", err) builds: the
\* messages from the outermost in, then the error the bus returned. The nil
\* error is the empty chain.
NilErr == <<>>
BusErr(e) == IF e = ErrNil THEN NilErr ELSE <<e>>
Errorf(msg, e) == <<msg>> \o e
Cause(e) == e[Len(e)]

\* errors.Is(e, target) follows the %w chain down to the bus error
ChainIs(e, target) == e # NilErr /\ ErrorIs(Cause(e), target)

\* what a call on m.transport (a sensors.I2CBus) can return
BusErrs == {ErrNil, ErrBusBusy, ErrBusBusyReleaseFailed, ErrNotConnected}

XWriteOps == {"InitA", "InitB", "PullUpA", "PullUpB",
              "WriteSettingsA", "WriteSettingsB"}
XReadOps == {"ReadA", "ReadB", "ReadSettingsA", "ReadSettingsB"}
XOps == XWriteOps \cup XReadOps

\* message an operation puts in front of the error of a failed attempt
XMsg(o) ==
    CASE o = "InitA" -> "could not initialize gpio A set"
      [] o = "InitB" -> "could not initialize gpio B set"
      [] o = "PullUpA" -> "could not set pull-up on gpio A set"
      [] o = "PullUpB" -> "could not set pull-up on gpio B set"
      [] o = "WriteSettingsA" -> "could not write settings on gpio A set"
      [] o = "WriteSettingsB" -> "could not write settings on gpio B set"
      [] o = "ReadA" -> "could not read gpio A set"
      [] o \in {"ReadB", "ReadSettingsA", "ReadSettingsB"} ->
            "could not read gpio B set"

\* the error returned after the loop; its one message
\* "... (retry limit reached)" is held as two elements of the chain
LimitReached(o, e) == <<XMsg(o), "retry limit reached">> \o e

\* the test the loop makes on a failed attempt before it releases the bus
Retryable_AnyError(e) == e # NilErr

Retryable(e) == ChainIs(e, ErrBusBusy)

\* a call on m.transport with what it returned
BusCall(c, e) == [call |-> c, err |-> e]

\* m.bank: never assigned, the zero value
Bank == 0

\* BankAddr[bank][reg], for the registers the operations use
BankAddr(bank, reg) ==
    IF bank = 0
    THEN CASE reg = "IODIRA" -> 0  [] reg = "IODIRB" -> 1
           [] reg = "IOCONA" -> 10 [] reg = "IOCONB" -> 11
           [] reg = "GPPUA" -> 12  [] reg = "GPPUB" -> 13
           [] reg = "GPIOA" -> 18  [] reg = "GPIOB" -> 19
    ELSE CASE reg = "IODIRA" -> 0  [] reg = "IODIRB" -> 16
           [] reg = "IOCONA" -> 5  [] reg = "IOCONB" -> 21
           [] reg = "GPPUA" -> 6   [] reg = "GPPUB" -> 22
           [] reg = "GPIOA" -> 9   [] reg = "GPIOB" -> 25

\* the register each operation names in its call
XReg(o) ==
    CASE o \in {"InitA", "InitB"} -> "IODIRA"
      [] o = "PullUpA" -> "GPPUA"
      [] o = "PullUpB" -> "GPPUB"
      [] o \in {"WriteSettingsA", "ReadSettingsA"} -> "IOCONA"
      [] o \in {"WriteSettingsB", "ReadSettingsB"} -> "IOCONB"
      [] o = "ReadA" -> "GPIOA"
      [] o = "ReadB" -> "GPIOB"

\* values given as inout / settings
XBytes == {15, 255}

\* the body of the loop after an attempt returned e: return nil, return the
\* wrapped error, or go on to release the bus
AfterAttempt(g, e) ==
    IF e = NilErr
    THEN /\ xpc' = [xpc EXCEPT ![g] = "done"]
         /\ xres' = [xres EXCEPT ![g] = NilErr]
         /\ xerr' = [xerr EXCEPT ![g] = e]
    ELSE IF ~Retryable(e)
    THEN /\ xpc' = [xpc EXCEPT ![g] = "done"]
         /\ xres' = [xres EXCEPT ![g] = Errorf(XMsg(xop[g]), e)]
         /\ xerr' = [xerr EXCEPT ![g] = e]
    ELSE /\ xpc' = [xpc EXCEPT ![g] = "release"]
         /\ xerr' = [xerr EXCEPT ![g] = e]
         /\ UNCHANGED xres

\* a goroutine calls an operation: var err error; i := m.retryLimit
XCall(g) ==
    /\ xpc[g] = "idle"
    /\ \E o \in XOps :
          /\ xop' = [xop EXCEPT ![g] = o]
          /\ \E b \in (IF o \in XWriteOps THEN XBytes ELSE {0}) :
                xarg' = [xarg EXCEPT ![g] = b]
    /\ xsent' = [xsent EXCEPT ![g] = <<>>]
    /\ xi' = [xi EXCEPT ![g] = RetryLimit]
    /\ xerr' = [xerr EXCEPT ![g] = NilErr]
    /\ xcalls' = [xcalls EXCEPT ![g] = <<>>]
    /\ xpc' = [xpc EXCEPT ![g] = "loop"]
    /\ UNCHANGED <<xmx, xres, bridgeVars, sensorVars, linkVars, pollVars>>

\* i > 0 in InitA, InitB, PullUpA, PullUpB, WriteSettingsA, WriteSettingsB:
\* the attempt is one m.transport.WriteToAddr
XWrite(g) ==
    /\ xpc[g] = "loop"
    /\ xi[g] > 0
    /\ xop[g] \in XWriteOps
    /\ \E e \in BusErrs :
          /\ xcalls' = [xcalls EXCEPT
                           ![g] = Append(@, BusCall("WriteToAddr", e))]
          /\ AfterAttempt(g, BusErr(e))
    /\ xsent' = [xsent EXCEPT
                    ![g] = Append(@, <<BankAddr(Bank, XReg(xop[g])), xarg[g]>>)]
    /\ UNCHANGED <<xmx, xop, xi, xarg, bridgeVars, sensorVars, linkVars, pollVars>>

\* i > 0 in ReadA, ReadB, ReadSettingsA, ReadSettingsB: the attempt is
\* readRegistry, which starts with m.mx.Lock()
XLock(g) ==
    /\ xpc[g] = "loop"
    /\ xi[g] > 0
    /\ xop[g] \in XReadOps
    /\ xmx = Free
    /\ xmx' = g
    /\ xpc' = [xpc EXCEPT ![g] = "regwrite"]
    /\ UNCHANGED <<xop, xi, xerr, xcalls, xarg, xsent, xres, bridgeVars,
                   sensorVars, linkVars, pollVars>>

\* readRegistry: WriteToAddr of the register address; on an error the
\* deferred Unlock runs and the loop body goes on with the wrapped error
XRegWrite(g) ==
    /\ xpc[g] = "regwrite"
    /\ \E e \in BusErrs :
          /\ xcalls' = [xcalls EXCEPT
                           ![g] = Append(@, BusCall("WriteToAddr", e))]
          /\ IF e = ErrNil
             THEN /\ xpc' = [xpc EXCEPT ![g] = "regread"]
                  /\ UNCHANGED <<xmx, xerr, xres>>
             ELSE /\ xmx' = Free
                  /\ AfterAttempt(g,
                        Errorf("could not set I/O registry address", BusErr(e)))
    /\ xsent' = [xsent EXCEPT
                    ![g] = Append(@, <<BankAddr(Bank, XReg(xop[g]))>>)]
    /\ UNCHANGED <<xop, xi, xarg, bridgeVars, sensorVars, linkVars, pollVars>>

\* readRegistry: ReadFromAddr of one byte, the deferred Unlock, and the loop
\* body
XRegRead(g) ==
    /\ xpc[g] = "regread"
    /\ \E e \in BusErrs :
          /\ xcalls' = [xcalls EXCEPT
                           ![g] = Append(@, BusCall("ReadFromAddr", e))]
          /\ AfterAttempt(g,
                IF e = ErrNil THEN NilErr
                ELSE Errorf("could not read gpio data", BusErr(e)))
    /\ xmx' = Free
    /\ UNCHANGED <<xop, xi, xarg, xsent, bridgeVars, sensorVars, linkVars, pollVars>>

\* _ = m.transport.Release(ctx), then i--
XRelease(g) ==
    /\ xpc[g] = "release"
    /\ \E e \in BusErrs :
          xcalls' = [xcalls EXCEPT ![g] = Append(@, BusCall("Release", e))]
    /\ xi' = [xi EXCEPT ![g] = @ - 1]
    /\ xpc' = [xpc EXCEPT ![g] = "loop"]
    /\ UNCHANGED <<xmx, xop, xerr, xarg, xsent, xres, bridgeVars, sensorVars,
                   linkVars, pollVars>>

\* i > 0 is false: the return after the loop
XLimit(g) ==
    /\ xpc[g] = "loop"
    /\ xi[g] <= 0
    /\ xres' = [xres EXCEPT ![g] = LimitReached(xop[g], xerr[g])]
    /\ xpc' = [xpc EXCEPT ![g] = "done"]
    /\ UNCHANGED <<xmx, xop, xi, xerr, xcalls, xarg, xsent, bridgeVars,
                   sensorVars, linkVars, pollVars>>

\* the operation has returned to its caller
XReturn(g) ==
    /\ xpc[g] = "done"
    /\ xpc' = [xpc EXCEPT ![g] = "idle"]
    /\ xop' = [xop EXCEPT ![g] = "none"]
    /\ xi' = [xi EXCEPT ![g] = 0]
    /\ xerr' = [xerr EXCEPT ![g] = NilErr]
    /\ xcalls' = [xcalls EXCEPT ![g] = <<>>]
    /\ xarg' = [xarg EXCEPT ![g] = 0]
    /\ xsent' = [xsent EXCEPT ![g] = <<>>]
    /\ xres' = [xres EXCEPT ![g] = NilErr]
    /\ UNCHANGED <<xmx, bridgeVars, sensorVars, linkVars, pollVars>>

(* ------------------------------- AGS02MA ------------------------------- *)
\* calls of scheduleDelay in one behaviour
MaxDelays == 2

\* channels made for delayDone: 0 by NewAGS02MA, the others by scheduleDelay
Gates == 0..MaxDelays
NoGate == MaxDelays + 1

ags02maAddress == 26
regTVOC == 0
regVersion == 17
regResistance == 32
regCalibrate == 1
statusBitRDY == 1

\* values of config.TVOCMode
TVOCModes == {"DirectRead", "RegisterWrite"}

\* config.TVOCMode of a sensor made by NewAGS02MA without WithTVOCMode
DefaultTVOCMode == "RegisterWrite"

\* operations made of a register write, the TxDelay and a read
SWriteReadOps == {"GetTVOCWithRegisterWrite", "ReadVersion",
                  "ReadResistance", "Calibrate"}
SOps == {"Configure", "GetTVOCDirectRead", "Close"} \cup SWriteReadOps

\* the operation GetTVOC runs
GetTVOC(mode) ==
    IF mode = "DirectRead" THEN "GetTVOCDirectRead"
    ELSE "GetTVOCWithRegisterWrite"

\* the methods of AGS02MA, and the operation each one runs
SApi == SOps \cup {"GetTVOC"}
SImpl(a) == IF a = "GetTVOC" THEN GetTVOC(DefaultTVOCMode) ELSE a

\* operations that end with scheduleDelay when they succeed
Scheduling(o) == o \in SOps \ {"Close", "ReadVersion"}

\* a ^ b on n-bit values
RECURSIVE Xor(_, _, _)
Xor(a, b, n) ==
    IF n = 0 THEN 0
    ELSE ((a + b) % 2) + 2 * Xor(a \div 2, b \div 2, n - 1)

\* checkCRC: the n inner rounds on one byte
RECURSIVE crcRounds(_, _)
crcRounds(crc, n) ==
    IF n = 0 THEN crc
    ELSE crcRounds(IF crc >= 128 THEN Xor((crc * 2) % 256, 49, 8)
                   ELSE (crc * 2) % 256,
                   n - 1)

\* checkCRC: the loop over data from index i, with crc so far
RECURSIVE crcFrom(_, _, _)
crcFrom(data, i, crc) ==
    IF i > Len(data) THEN crc
    ELSE crcFrom(data, i + 1, crcRounds(Xor(crc, data[i], 8), 8))

checkCRC(data) == crcFrom(data, 1, 255)

\* a 5-byte answer of the sensor with the CRC the sensor computes
Answer(b0, b1, b2, b3) == <<b0, b1, b2, b3, checkCRC(<<b0, b1, b2, b3>>)>>

\* what a read delivers in s.buf: a valid frame with RDY clear, one with
\* RDY set, one whose CRC byte does not match
Frames == {Answer(0, 1, 2, 3), Answer(statusBitRDY, 0, 0, 9),
           <<0, 4, 5, 6, 0>>}

\* (uint32(s.buf[1]) << 16) | (uint32(s.buf[2]) << 8) | uint32(s.buf[3])
ppb_LittleEndian(b) == b[2] + 256 * b[3] + 65536 * b[4]

ppb(b) == 65536 * b[2] + 256 * b[3] + b[4]

ErrNotReady == "ags02ma: data not ready or sensor in pre-heat stage"
ErrCRC == "ags02ma: crc mismatch"

\* message in front of the error of the first bus call of an operation
SMsg1(o) ==
    CASE o = "Configure" -> "ags02ma: configuration write failed"
      [] o = "GetTVOCDirectRead" -> "ags02ma: read failed"
      [] o = "GetTVOCWithRegisterWrite" -> "ags02ma: write reg 0x00 failed"
      [] o = "ReadVersion" -> "ags02ma: write reg 0x11 failed"
      [] o = "ReadResistance" -> "ags02ma: write reg 0x20 failed"
      [] o = "Calibrate" -> "ags02ma: write reg 0x01 failed"

\* bytes the first WriteToAddr of an operation carries
SData1(o) ==
    CASE o = "Configure" -> <<regTVOC, 0, 255, 0, 255, 48>>
      [] o = "GetTVOCWithRegisterWrite" -> <<regTVOC>>
      [] o = "ReadVersion" -> <<regVersion>>
      [] o = "ReadResistance" -> <<regResistance>>
      [] o = "Calibrate" -> <<regCalibrate>>

\* a call on s.transport: its address, the bytes written (none for a read)
\* and the error returned
SBusCall(c, d, e) == [call |-> c, addr |-> ags02maAddress, data |-> d, err |-> e]

\* s.mx.Lock() can return
SensorCanLock_NoLock(m) == TRUE

SensorCanLock(m) == m = Free

\* goroutines inside a WriteToAddr / ReadFromAddr of the sensor
InBusCall == {g \in Users : spc[g] \in {"bus1", "bus2"}}

\* goroutines inside an operation that may still call scheduleDelay
MaySchedule == {g \in Users : spc[g] # "idle" /\ Scheduling(sop[g])}

SFinish(g, e) ==
    /\ spc' = [spc EXCEPT ![g] = "done"]
    /\ sres' = [sres EXCEPT ![g] = e]

\* checks an operation makes on s.buf after its read, in the order of the
\* code, and the value it returns
SAfterRead(g, b) ==
    IF sop[g] # "GetTVOCDirectRead" /\ checkCRC(SubSeq(b, 1, 4)) # b[5]
    THEN /\ SFinish(g, <<ErrCRC>>)
         /\ UNCHANGED sval
    ELSE IF sop[g] \in {"GetTVOCDirectRead", "GetTVOCWithRegisterWrite"}
            /\ b[1] % 2 = statusBitRDY
    THEN /\ SFinish(g, <<ErrNotReady>>)
         /\ UNCHANGED sval
    ELSE IF sop[g] = "ReadVersion"
    THEN /\ SFinish(g, NilErr)
         /\ sval' = [sval EXCEPT ![g] = b[4]]
    ELSE /\ spc' = [spc EXCEPT ![g] = "sched"]
         /\ sval' = [sval EXCEPT ![g] =
                       IF sop[g] = "Calibrate" THEN 0
                       ELSE IF sop[g] = "ReadResistance" THEN b[4]
                       ELSE ppb(b)]
         /\ UNCHANGED sres

\* a goroutine calls a method with a ctx that may be cancelled already;
\* waitForDelay reads s.delayDone
SCall(g) ==
    /\ spc[g] = "idle"
    /\ \E a \in SApi :
          /\ Scheduling(SImpl(a)) =>
                sgate + Cardinality(MaySchedule) < MaxDelays
          /\ sapi' = [sapi EXCEPT ![g] = a]
          /\ sop' = [sop EXCEPT ![g] = SImpl(a)]
    /\ sch' = [sch EXCEPT ![g] = sgate]
    /\ \E c \in BOOLEAN : scancel' = [scancel EXCEPT ![g] = c]
    /\ sres' = [sres EXCEPT ![g] = NilErr]
    /\ sval' = [sval EXCEPT ![g] = 0]
    /\ scalls' = [scalls EXCEPT ![g] = <<>>]
    /\ spc' = [spc EXCEPT ![g] = "wait"]
    /\ UNCHANGED <<smx, sbuf, sgate, sclosed, selapsed, sdctx,
                   bridgeVars, expanderVars, linkVars, pollVars>>

\* the ctx of the operation is cancelled
SCancel(g) ==
    /\ spc[g] \notin {"idle", "done"}
    /\ ~scancel[g]
    /\ scancel' = [scancel EXCEPT ![g] = TRUE]
    /\ UNCHANGED <<smx, sbuf, sgate, sclosed, selapsed, sdctx, spc, sop, sapi,
                   sch, scalls, sval, sres, bridgeVars, expanderVars, linkVars, pollVars>>

\* waitForDelay: what it returns when ctx.Done() is taken
waitForDelayErr_Wrapped == Errorf("ags02ma: wait for delay", <<ErrCanceled>>)

waitForDelayErr == <<ErrCanceled>>

\* waitForDelay: select on ch and ctx.Done(); Close returns after it
SWait(g) ==
    /\ spc[g] = "wait"
    /\ \/ /\ sch[g] \in sclosed
          /\ IF sop[g] = "Close"
             THEN SFinish(g, NilErr)
             ELSE /\ spc' = [spc EXCEPT ![g] = "lock1"]
                  /\ UNCHANGED sres
       \/ /\ scancel[g]
          /\ SFinish(g, IF sop[g] = "Close" THEN NilErr ELSE waitForDelayErr)
    /\ UNCHANGED <<smx, sbuf, sgate, sclosed, selapsed, sdctx, sop, sapi, sch,
                   scancel, scalls, sval, bridgeVars, expanderVars, linkVars, pollVars>>

\* s.mx.Lock() and the start of the bus call that follows it
SLock(g) ==
    /\ spc[g] \in {"lock1", "lock2"}
    /\ SensorCanLock(smx)
    /\ smx' = g
    /\ spc' = [spc EXCEPT ![g] = IF spc[g] = "lock1" THEN "bus1" ELSE "bus2"]
    /\ UNCHANGED <<sbuf, sgate, sclosed, selapsed, sdctx, sop, sapi, sch,
                   scancel, scalls, sval, sres, bridgeVars, expanderVars, linkVars, pollVars>>

\* the first bus call returns (a read has filled s.buf), s.mx.Unlock(), and
\* the test of err
SFirst(g) ==
    /\ spc[g] = "bus1"
    /\ smx' = Free
    /\ \E e \in BusErrs :
          IF sop[g] = "GetTVOCDirectRead"
          THEN /\ scalls' = [scalls EXCEPT
                     ![g] = Append(@, SBusCall("ReadFromAddr", <<>>, e))]
               /\ IF e # ErrNil
                  THEN /\ SFinish(g, Errorf(SMsg1(sop[g]), BusErr(e)))
                       /\ UNCHANGED sbuf
                  ELSE /\ \E f \in Frames : sbuf' = f
                       /\ spc' = [spc EXCEPT ![g] = "decode"]
                       /\ UNCHANGED sres
          ELSE /\ scalls' = [scalls EXCEPT
                     ![g] = Append(@, SBusCall("WriteToAddr", SData1(sop[g]), e))]
               /\ UNCHANGED sbuf
               /\ IF e # ErrNil
                  THEN SFinish(g, Errorf(SMsg1(sop[g]), BusErr(e)))
                  ELSE /\ spc' = [spc EXCEPT ![g] =
                             IF sop[g] = "Configure" THEN "sched" ELSE "tx"]
                       /\ UNCHANGED sres
    /\ UNCHANGED <<sgate, sclosed, selapsed, sdctx, sop, sapi, sch, scancel,
                   sval, bridgeVars, expanderVars, linkVars, pollVars>>

\* select on the TxDelay timer and ctx.Done()
STxDelay(g) ==
    /\ spc[g] = "tx"
    /\ \/ /\ spc' = [spc EXCEPT ![g] = "lock2"]
          /\ UNCHANGED sres
       \/ /\ scancel[g]
          /\ SFinish(g, <<ErrCanceled>>)
    /\ UNCHANGED <<smx, sbuf, sgate, sclosed, selapsed, sdctx, sop, sapi, sch,
                   scancel, scalls, sval, bridgeVars, expanderVars, linkVars, pollVars>>

\* the ReadFromAddr after the TxDelay returns, s.mx.Unlock(), and the test
\* of err
SSecond(g) ==
    /\ spc[g] = "bus2"
    /\ smx' = Free
    /\ \E e \in BusErrs :
          /\ scalls' = [scalls EXCEPT
                ![g] = Append(@, SBusCall("ReadFromAddr", <<>>, e))]
          /\ IF e # ErrNil
             THEN /\ SFinish(g, Errorf("ags02ma: read failed", BusErr(e)))
                  /\ UNCHANGED sbuf
             ELSE /\ \E f \in Frames : sbuf' = f
                  /\ spc' = [spc EXCEPT ![g] = "decode"]
                  /\ UNCHANGED sres
    /\ UNCHANGED <<sgate, sclosed, selapsed, sdctx, sop, sapi, sch, scancel,
                   sval, bridgeVars, expanderVars, linkVars, pollVars>>

\* after the Unlock: the checks on s.buf and the value computed from it
SDecode(g) ==
    /\ spc[g] = "decode"
    /\ SAfterRead(g, sbuf)
    /\ UNCHANGED <<smx, sbuf, sgate, sclosed, selapsed, sdctx, sop, sapi, sch,
                   scancel, scalls, bridgeVars, expanderVars, linkVars, pollVars>>

\* scheduleDelay with the ctx of the operation: s.delayDone =
\* make(chan struct{}), and the return
SSchedule(g) ==
    /\ spc[g] = "sched"
    /\ sgate' = sgate + 1
    /\ sdctx' = IF scancel[g] THEN sdctx \cup {sgate + 1} ELSE sdctx
    /\ SFinish(g, NilErr)
    /\ UNCHANGED <<smx, sbuf, sclosed, selapsed, sop, sapi, sch, scancel,
                   scalls, sval, bridgeVars, expanderVars, linkVars, pollVars>>

\* the delay of a scheduleDelay elapses: its timer fires
STimer(c) ==
    /\ c \in 1..sgate
    /\ c \notin selapsed
    /\ selapsed' = selapsed \cup {c}
    /\ UNCHANGED <<smx, sbuf, sgate, sclosed, sdctx, spc, sop, sapi, sch,
                   scancel, scalls, sval, sres, bridgeVars, expanderVars, linkVars, pollVars>>

\* the caller cancels the ctx it gave to the operation that called
\* scheduleDelay, after the operation returned
SCtxDone(c) ==
    /\ c \in 1..sgate
    /\ c \notin sdctx
    /\ sdctx' = sdctx \cup {c}
    /\ UNCHANGED <<smx, sbuf, sgate, sclosed, selapsed, spc, sop, sapi, sch,
                   scancel, scalls, sval, sres, bridgeVars, expanderVars, linkVars, pollVars>>

\* the goroutine of scheduleDelay: select on timer.C and ctx.Done(), and
\* close(ch) in both cases
SDelayDone(c) ==
    /\ c \in 1..sgate
    /\ c \notin sclosed
    /\ \/ c \in selapsed
       \/ c \in sdctx
    /\ sclosed' = sclosed \cup {c}
    /\ UNCHANGED <<smx, sbuf, sgate, selapsed, sdctx, spc, sop, sapi, sch,
                   scancel, scalls, sval, sres, bridgeVars, expanderVars, linkVars, pollVars>>

\* the operation has returned to its caller
SReturn(g) ==
    /\ spc[g] = "done"
    /\ spc' = [spc EXCEPT ![g] = "idle"]
    /\ sop' = [sop EXCEPT ![g] = "none"]
    /\ sapi' = [sapi EXCEPT ![g] = "none"]
    /\ sch' = [sch EXCEPT ![g] = NoGate]
    /\ scancel' = [scancel EXCEPT ![g] = FALSE]
    /\ scalls' = [scalls EXCEPT ![g] = <<>>]
    /\ sval' = [sval EXCEPT ![g] = 0]
    /\ sres' = [sres EXCEPT ![g] = NilErr]
    /\ UNCHANGED <<smx, sbuf, sgate, sclosed, selapsed, sdctx,
                   bridgeVars, expanderVars, linkVars, pollVars>>

(* ------------------- input reports of the HID handle ------------------- *)
\* operations the caller makes
MaxOps == 3

\* the MCP2221 answers every command with one input report, the reset
\* command (0x70) excepted
Replies(o, ph) == ~(o = "Reset" /\ ph = "main")

\* the queue of the handle once the device has got the request of
\* operation n: reports are kept until a Read takes them, oldest first
Queued(q, n, o, ph) == IF Replies(o, ph) THEN Append(q, n) ELSE q

\* the caller enters an Engine operation on a connected bridge: Lock, the
\* connected check, resetBuffers and the first request
HCall ==
    /\ hpc = "idle"
    /\ hn < MaxOps
    /\ hn' = hn + 1
    /\ \E o \in EngineOps :
          /\ hop' = o
          /\ hphase' = IF o \in {"Release", "ReleaseBus"}
                         THEN "release" ELSE "main"
    /\ hpc' = "send"
    /\ hgot' = <<>>
    /\ UNCHANGED <<hcancel, hq, bridgeVars, expanderVars, sensorVars, pollVars>>

\* the ctx of the call is cancelled; only the guard select reads it
HCancel ==
    /\ hpc = "guard"
    /\ ~hcancel
    /\ hcancel' = TRUE
    /\ UNCHANGED <<hpc, hop, hphase, hn, hq, hgot, bridgeVars, expanderVars,
                   sensorVars, pollVars>>

\* send: d.device.Write(d.request).  A write that failed or was short may
\* or may not have reached the device.
HSend ==
    /\ hpc = "send"
    /\ \E out \in Outcomes :
          IF out = "ok"
          THEN /\ hq' = Queued(hq, hn, hop, hphase)
               /\ hpc' = AfterSend(hop, hphase)
          ELSE /\ \E reached \in BOOLEAN :
                     hq' = IF reached THEN Queued(hq, hn, hop, hphase) ELSE hq
               /\ hpc' = "done"
    /\ UNCHANGED <<hop, hphase, hcancel, hn, hgot, bridgeVars, expanderVars,
                   sensorVars, pollVars>>

\* waitAndReceive: the select on time.After(delay) and ctx.Done(); the
\* operation returns without a Read when ctx.Done() is taken
HGuard ==
    /\ hpc = "guard"
    /\ \/ hpc' = "recv"
       \/ /\ hcancel
          /\ hpc' = "done"
    /\ UNCHANGED <<hop, hphase, hcancel, hn, hq, hgot, bridgeVars,
                   expanderVars, sensorVars, pollVars>>

\* receive: d.device.Read(d.response) takes the oldest report of the queue
\* (it blocks while there is none, or fails), and the code up to the next
\* device call or the return; b1 is byte 1 of the report
HReceive ==
    /\ hpc = "recv"
    /\ \E out \in Outcomes : \E b1 \in RespCodes :
          /\ out # "err" => hq # <<>>
          /\ hq' = IF out = "err" THEN hq ELSE Tail(hq)
          /\ hgot' = IF out = "ok" THEN Append(hgot, Head(hq)) ELSE hgot
          /\ IF hphase = "release" \/ receiveErr(out) # ErrNil
             THEN /\ hpc' = "done"
                  /\ UNCHANGED hphase
             ELSE IF hop \in {"WriteToAddr", "ReadFromAddr"}
                     /\ hphase = "main" /\ b1 = RespBusy
             THEN /\ hphase' = "release"
                  /\ hpc' = "send"
             ELSE IF hop = "ReadFromAddr" /\ hphase = "main"
             THEN /\ hphase' = "fetch"
                  /\ hpc' = "send"
             ELSE /\ hpc' = "done"
                  /\ UNCHANGED hphase
    /\ UNCHANGED <<hop, hcancel, hn, bridgeVars, expanderVars, sensorVars, pollVars>>

\* the deferred d.mx.Unlock() and the return to the caller
HReturn ==
    /\ hpc = "done"
    /\ hpc' = "idle"
    /\ hop' = "none"
    /\ hphase' = "main"
    /\ hcancel' = FALSE
    /\ hgot' = <<>>
    /\ UNCHANGED <<hn, hq, bridgeVars, expanderVars, sensorVars, pollVars>>


\* the nil *MCP2221Status
NoStatus == [nil |-> TRUE]

(* --------------------------- specification ----------------------------- *)
Init ==
    /\ status = StatusNew
    /\ device = "nil"
    /\ mx = Free
    /\ request = Zero64
    /\ response = Zero64
    /\ reconnectChan = "nil"
    /\ wpc = "off"
    /\ wsite = "none"
    /\ ipc = "idle"
    /\ plugged \in BOOLEAN
    /\ parentDone = FALSE
    /\ pc = [p \in Procs |-> "idle"]
    /\ op = [p \in Procs |-> "none"]
    /\ arg = [p \in Procs |-> NoArg]
    /\ phase = [p \in Procs |-> "main"]
    /\ buf = [p \in Procs |-> <<>>]
    /\ cancelled = [p \in Procs |-> FALSE]
    /\ timerFired = [p \in Procs |-> FALSE]
    /\ result = [p \in Procs |-> ErrNil]
    /\ wire = [p \in Procs |-> <<>>]
    /\ xmx = Free
    /\ xpc = [g \in Users |-> "idle"]
    /\ xop = [g \in Users |-> "none"]
    /\ xi = [g \in Users |-> 0]
    /\ xerr = [g \in Users |-> NilErr]
    /\ xcalls = [g \in Users |-> <<>>]
    /\ xarg = [g \in Users |-> 0]
    /\ xsent = [g \in Users |-> <<>>]
    /\ xres = [g \in Users |-> NilErr]
    /\ smx = Free
    /\ sbuf = <<0, 0, 0, 0, 0>>
    /\ sgate = 0
    /\ sclosed = {0}
    /\ selapsed = {}
    /\ sdctx = {}
    /\ spc = [g \in Users |-> "idle"]
    /\ sop = [g \in Users |-> "none"]
    /\ sapi = [g \in Users |-> "none"]
    /\ sch = [g \in Users |-> NoGate]
    /\ scancel = [g \in Users |-> FALSE]
    /\ scalls = [g \in Users |-> <<>>]
    /\ sval = [g \in Users |-> 0]
    /\ sres = [g \in Users |-> NilErr]
    /\ hpc = "idle"
    /\ hop = "none"
    /\ hphase = "main"
    /\ hcancel = FALSE
    /\ hn = 0
    /\ hq = <<>>
    /\ hgot = <<>>
    /\ tpc = "idle"
    /\ taddr = 0
    /\ tcancel = FALSE
    /\ ttimeout = FALSE
    /\ tpolls = 0
    /\ tstatus = NoStatus
    /\ tres = ErrNil

Next ==
    \/ \E p \in Procs : Call(p)
    \/ \E p \in Procs : Begin(p)
    \/ \E p \in Procs : Send(p)
    \/ \E p \in Procs : TimerFire(p)
    \/ \E p \in Procs : Cancel(p)
    \/ \E p \in Procs : Guard(p)
    \/ \E p \in Procs : Receive(p)
    \/ \E p \in Procs : Return(p)
    \/ \E p \in Procs : Reconnect(p)
    \/ InitLock
    \/ InitOpen
    \/ Connect
    \/ WdMakeChan
    \/ WdSetInit
    \/ WdConnectLock
    \/ WdOpen
    \/ WdPark
    \/ WdTick
    \/ WdIsConnected
    \/ WdExit
    \/ Plug
    \/ Unplug
    \/ ParentCancel

Spec == Init /\ [][Next]_vars

\* a step of the caller that holds d.mx and is inside its exchanges
CallerProgress ==
    \E p \in Procs :
        Send(p) \/ TimerFire(p) \/ Guard(p) \/ Receive(p) \/ Return(p)

\* a step of the watchdog goroutine that waits for nothing but the tick
WatchdogProgress == WdMakeChan \/ WdSetInit \/ WdOpen \/ WdTick

\* a step of the watchdog goroutine that acquires d.mx
WatchdogLocks == WdConnectLock \/ WdIsConnected

\* Scheduling: a runnable goroutine runs, a timer that was started fires,
\* a device call returns, and a goroutine waiting for d.mx gets it
\* (sync.Mutex hands the lock to a waiter that starved for 1ms).
Fairness ==
    /\ WF_vars(CallerProgress)
    /\ WF_vars(InitOpen)
    /\ WF_vars(WatchdogProgress)
    /\ SF_vars(WatchdogLocks)

FairSpec == Init /\ [][Next]_vars /\ Fairness

\* The Connection Supervisor with its callers: Init, Connect, the watchdog
\* goroutine, and goroutines calling Reconnect
SupervisorNext ==
    \/ \E p \in Procs : ReconnectCall(p)
    \/ \E p \in Procs : ReconnectReturn(p)
    \/ InitLock
    \/ InitOpen
    \/ Connect
    \/ WdMakeChan
    \/ WdSetInit
    \/ WdConnectLock
    \/ WdOpen
    \/ WdPark
    \/ WdTick
    \/ WdIsConnected
    \/ WdExit
    \/ Plug
    \/ Unplug
    \/ ParentCancel

SupervisorSpec == Init /\ [][SupervisorNext]_vars

(* ------------------- callers and watchdog sharing d.mx ----------------- *)
\* the calls and the reports that take WriteToAddr and ReadFromAddr through
\* each of their exit paths
LockCalls ==
    {<<"WriteToAddr", [address |-> 26, buffer |-> <<>>]>>,
     <<"ReadFromAddr", [address |-> 26, buffer |-> <<BufInit>>]>>}
LockResponses == {MkResp(0, 1), MkResp(RespBusy, 1), MkResp(0, InvalidLen)}

LockBegin(p) == \E c \in LockCalls : BeginOp(p, c[1], c[2])
LockReceive(p) ==
    \E out \in Outcomes : \E r \in LockResponses : ReceiveFrom(p, out, r)

LockNext ==
    \/ \E p \in Procs : Call(p)
    \/ \E p \in Procs : LockBegin(p)
    \/ \E p \in Procs : Send(p)
    \/ \E p \in Procs : TimerFire(p)
    \/ \E p \in Procs : Cancel(p)
    \/ \E p \in Procs : Guard(p)
    \/ \E p \in Procs : LockReceive(p)
    \/ \E p \in Procs : Return(p)
    \/ \E p \in Procs : Reconnect(p)
    \/ InitLock
    \/ InitOpen
    \/ Connect
    \/ WdMakeChan
    \/ WdSetInit
    \/ WdConnectLock
    \/ WdOpen
    \/ WdPark
    \/ WdTick
    \/ WdIsConnected
    \/ WdExit
    \/ Plug
    \/ Unplug
    \/ ParentCancel

\* Scheduling: as in Fairness; sync.Mutex in starvation mode hands d.mx to
\* the goroutine that waited longest, so a caller blocked in Lock gets it
\* after finitely many unlocks
LockFairness ==
    /\ \A p \in Procs :
          WF_vars(Send(p) \/ TimerFire(p) \/ Guard(p) \/ LockReceive(p)
                     \/ Return(p))
    /\ \A p \in Procs : SF_vars(LockBegin(p))
    /\ WF_vars(InitOpen)
    /\ WF_vars(WatchdogProgress)
    /\ SF_vars(WatchdogLocks)

LockFairSpec == Init /\ [][LockNext]_vars /\ LockFairness

(* ------------------- frames of WriteToAddr and Status ------------------ *)
\* longest payload given to WriteToAddr
MaxPayload == 61
\* bytes of a request after the four header bytes (d.request[4:])
DataCapacity == FrameLen - 4

\* binary.LittleEndian.Uint16(b[off:off+2])
Uint16(b, off) == Byte(b, off) + 256 * Byte(b, off + 1)

\* a decoding that reads the two size fields from each other's offsets
bufferToStatus_SwappedSizes(buffer) ==
    [I2CDataBufferCounter   |-> Byte(buffer, 13),
     I2CSpeedDivider        |-> Byte(buffer, 14),
     I2CTimeout             |-> Byte(buffer, 15),
     ReadPending            |-> Byte(buffer, 25),
     CurrentAddress         |-> <<Byte(buffer, 16), Byte(buffer, 17)>>,
     LastI2CRequestedSize   |-> Uint16(buffer, 11),
     LastI2CTransferredSize |-> Uint16(buffer, 9),
     I2CAddress             |-> Byte(buffer, 16)]

\* bufferToStatus: the MCP2221Status decoded from a response
bufferToStatus(buffer) ==
    [I2CDataBufferCounter   |-> Byte(buffer, 13),
     I2CSpeedDivider        |-> Byte(buffer, 14),
     I2CTimeout             |-> Byte(buffer, 15),
     ReadPending            |-> Byte(buffer, 25),
     CurrentAddress         |-> <<Byte(buffer, 16), Byte(buffer, 17)>>,
     LastI2CRequestedSize   |-> Uint16(buffer, 9),
     LastI2CTransferredSize |-> Uint16(buffer, 11),
     I2CAddress             |-> Byte(buffer, 16)]

\* doGetStatus: the status a Status call that succeeded returns to p
StatusReturned(p) == bufferToStatus(response)

\* the one caller of this specification
CodecCaller == 1
\* 7-bit I2C addresses
CodecAddrs == {0, 26, 127}
\* payload lengths: none, short, the capacity of a frame, and beyond it
CodecLens == {0, 1, 2, DataCapacity - 1, DataCapacity, MaxPayload}
\* the payload of n bytes: byte j is 100 + j
CodecPayload(n) == [j \in 1..n |-> 100 + j]
CodecWriteArgs ==
    {[address |-> a, buffer |-> CodecPayload(n)] :
        a \in CodecAddrs, n \in {m \in CodecLens : m <= MaxPayload}}

\* status responses: the fields at offsets 9..17 and 25
StatusFields ==
    {<<10, 0, 10, 0, 2, 1, 5, 26, 0, 0>>,
     <<52, 18, 255, 255, 255, 254, 253, 35, 1, 7>>}
StatusResp(v) ==
    [k \in 1..FrameLen |->
        IF k - 1 >= 9 /\ k - 1 <= 17 THEN v[k - 9]
        ELSE IF k - 1 = 25 THEN v[10]
        ELSE IF k - 1 = 0 THEN OpStatus
        ELSE 0]
CodecResponses ==
    {MkResp(0, 1), MkResp(RespBusy, 1)} \cup {StatusResp(v) : v \in StatusFields}

\* a program that calls Init and then, from one goroutine, WriteToAddr
\* and Status
CodecNext ==
    \/ InitLock
    \/ InitOpen
    \/ Call(CodecCaller)
    \/ \E a \in CodecWriteArgs : BeginOp(CodecCaller, "WriteToAddr", a)
    \/ BeginOp(CodecCaller, "Status", NoArg)
    \/ Send(CodecCaller)
    \/ TimerFire(CodecCaller)
    \/ Guard(CodecCaller)
    \/ \E out \in Outcomes : \E r \in CodecResponses :
          ReceiveFrom(CodecCaller, out, r)
    \/ Return(CodecCaller)

CodecInit == Init /\ plugged

CodecSpec == CodecInit /\ [][CodecNext]_vars

(* ----------------------- buffers of ReadFromAddr ------------------------ *)
\* longest buffer given to ReadFromAddr
MaxReadLen == 61
\* buffer lengths: one byte, the data capacity of a response, and beyond it
ReadBufLens == {1, DataCapacity, MaxReadLen}
ReadBufArgs ==
    {[address |-> 26, buffer |-> [j \in 1..n |-> BufInit]] : n \in ReadBufLens}
\* reports of the device: not busy, with any of the lengths as size byte
ReadBufResponses == {MkResp(0, n) : n \in ReadBufLens}

\* a program that calls Init and then, from one goroutine, ReadFromAddr
ReadBufNext ==
    \/ InitLock
    \/ InitOpen
    \/ Call(CodecCaller)
    \/ \E a \in ReadBufArgs : BeginOp(CodecCaller, "ReadFromAddr", a)
    \/ Send(CodecCaller)
    \/ TimerFire(CodecCaller)
    \/ Guard(CodecCaller)
    \/ \E out \in Outcomes : \E r \in ReadBufResponses :
          ReceiveFrom(CodecCaller, out, r)
    \/ Return(CodecCaller)

ReadBufSpec == CodecInit /\ [][ReadBufNext]_vars

(* ----------------------- MCP23017 on some I2C bus ---------------------- *)
\* goroutines calling the operations of one MCP23017 whose bus answers
\* each call with any of BusErrs
ExpanderNext ==
    \/ \E g \in Users : XCall(g)
    \/ \E g \in Users : XWrite(g)
    \/ \E g \in Users : XLock(g)
    \/ \E g \in Users : XRegWrite(g)
    \/ \E g \in Users : XRegRead(g)
    \/ \E g \in Users : XRelease(g)
    \/ \E g \in Users : XLimit(g)
    \/ \E g \in Users : XReturn(g)

\* the bridge takes no step in the specifications of the drivers
DriverInit == Init /\ plugged

ExpanderSpec == DriverInit /\ [][ExpanderNext]_vars

(* ----------------------- AGS02MA on some I2C bus ----------------------- *)
\* goroutines calling the operations of one AGS02MA
SensorNext ==
    \/ \E g \in Users : SCall(g)
    \/ \E g \in Users : SCancel(g)
    \/ \E g \in Users : SWait(g)
    \/ \E g \in Users : SLock(g)
    \/ \E g \in Users : SFirst(g)
    \/ \E g \in Users : STxDelay(g)
    \/ \E g \in Users : SSecond(g)
    \/ \E g \in Users : SDecode(g)
    \/ \E g \in Users : SSchedule(g)
    \/ \E c \in Gates : STimer(c)
    \/ \E c \in Gates : SCtxDone(c)
    \/ \E c \in Gates : SDelayDone(c)
    \/ \E g \in Users : SReturn(g)

SensorSpec == DriverInit /\ [][SensorNext]_vars

\* one goroutine calling the operations of one AGS02MA one after the other
SeqUser == CHOOSE g \in Users : TRUE

SeqSensorNext ==
    \/ SCall(SeqUser)
    \/ SCancel(SeqUser)
    \/ SWait(SeqUser)
    \/ SLock(SeqUser)
    \/ SFirst(SeqUser)
    \/ STxDelay(SeqUser)
    \/ SSecond(SeqUser)
    \/ SDecode(SeqUser)
    \/ SSchedule(SeqUser)
    \/ \E c \in Gates : STimer(c)
    \/ \E c \in Gates : SCtxDone(c)
    \/ \E c \in Gates : SDelayDone(c)
    \/ SReturn(SeqUser)

SeqSensorSpec == DriverInit /\ [][SeqSensorNext]_vars

(* ---------------- one caller and the reports of the device ------------- *)
\* one goroutine calling Engine operations one after the other on a
\* connected bridge whose device answers the requests it gets
LinkNext ==
    \/ HCall
    \/ HCancel
    \/ HSend
    \/ HGuard
    \/ HReceive
    \/ HReturn

LinkSpec == DriverInit /\ [][LinkNext]_vars

(* ------------------------- waitForI2CTransfer -------------------------- *)
ErrI2CStatusTimeout == "i2c status check timeout"
ErrI2CAddressMismatch == "i2c address mismatch"

\* ticks of chipDelay followed in one call
MaxPolls == 3
\* the address given to waitForI2CTransfer
PollAddrs == {26}
\* status reports: the transfer complete or not, for the address given,
\* for no address and for another address
PollFields ==
    {<<2, 0, 2, 0, 0, 1, 5, 26, 0, 0>>, <<2, 0, 1, 0, 0, 1, 5, 26, 0, 0>>,
     <<2, 0, 2, 0, 0, 1, 5, 0, 0, 0>>,  <<2, 0, 1, 0, 0, 1, 5, 0, 0, 0>>,
     <<2, 0, 2, 0, 0, 1, 5, 35, 0, 0>>, <<2, 0, 1, 0, 0, 1, 5, 35, 0, 0>>}
PollResponses == {StatusResp(v) : v \in PollFields}

\* waitForI2CTransfer is called: the timer and the ticker are made
TCall ==
    /\ tpc = "idle"
    /\ \E a \in PollAddrs : taddr' = a
    /\ tpc' = "select"
    /\ tpolls' = 0
    /\ tstatus' = NoStatus
    /\ tres' = ErrNil
    /\ UNCHANGED <<tcancel, ttimeout, bridgeVars, expanderVars, sensorVars,
                   linkVars>>

\* the ctx of the call is cancelled
TCancel ==
    /\ tpc \in {"select", "send", "recv"}
    /\ ~tcancel
    /\ tcancel' = TRUE
    /\ UNCHANGED <<tpc, taddr, ttimeout, tpolls, tstatus, tres, bridgeVars,
                   expanderVars, sensorVars, linkVars>>

\* maxDelay has elapsed: the timer fires
TTimeout ==
    /\ tpc \in {"select", "send", "recv"}
    /\ ~ttimeout
    /\ ttimeout' = TRUE
    /\ UNCHANGED <<tpc, taddr, tcancel, tpolls, tstatus, tres, bridgeVars,
                   expanderVars, sensorVars, linkVars>>

\* the select on tick.C, timeout.C and ctx.Done(): one of the ready cases
TSelect ==
    /\ tpc = "select"
    /\ \/ /\ tpolls < MaxPolls
          /\ tpc' = "send"
          /\ UNCHANGED tres
       \/ /\ ttimeout
          /\ tpc' = "done"
          /\ tres' = ErrI2CStatusTimeout
       \/ /\ tcancel
          /\ tpc' = "done"
          /\ tres' = ErrCanceled
    /\ UNCHANGED <<taddr, tcancel, ttimeout, tpolls, tstatus, bridgeVars,
                   expanderVars, sensorVars, linkVars>>

\* doGetStatus: d.send.  When it fails doGetStatus returns (nil, err); the
\* error is logged and status.I2CAddress is read through the nil pointer
TSend ==
    /\ tpc = "send"
    /\ \E out \in Outcomes :
          /\ tpc' = IF sendErr(out) = ErrNil THEN "recv" ELSE "crashed"
          /\ tstatus' = IF sendErr(out) = ErrNil THEN tstatus ELSE NoStatus
    /\ UNCHANGED <<taddr, tcancel, ttimeout, tpolls, tres, bridgeVars,
                   expanderVars, sensorVars, linkVars>>

\* doGetStatus: d.receive and bufferToStatus, then the tests of the status
TReceive ==
    /\ tpc = "recv"
    /\ \E out \in Outcomes : \E r \in PollResponses :
          IF receiveErr(out) # ErrNil
          THEN /\ tpc' = "crashed"
               /\ tstatus' = NoStatus
               /\ UNCHANGED <<tpolls, tres>>
          ELSE /\ tstatus' = bufferToStatus(r)
               /\ tpolls' = tpolls + 1
               /\ IF tstatus'.I2CAddress # 0 /\ tstatus'.I2CAddress # taddr
                  THEN /\ tpc' = "done"
                       /\ tres' = ErrI2CAddressMismatch
                  ELSE IF tstatus'.LastI2CRequestedSize
                             = tstatus'.LastI2CTransferredSize
                  THEN /\ tpc' = "done"
                       /\ tres' = ErrNil
                  ELSE /\ tpc' = "select"
                       /\ UNCHANGED tres
    /\ UNCHANGED <<taddr, tcancel, ttimeout, bridgeVars, expanderVars,
                   sensorVars, linkVars>>

\* waitForI2CTransfer has returned to its caller
TReturn ==
    /\ tpc = "done"
    /\ tpc' = "idle"
    /\ taddr' = 0
    /\ tcancel' = FALSE
    /\ ttimeout' = FALSE
    /\ tpolls' = 0
    /\ tstatus' = NoStatus
    /\ tres' = ErrNil
    /\ UNCHANGED <<bridgeVars, expanderVars, sensorVars, linkVars>>

\* one goroutine calling waitForI2CTransfer on a connected bridge
PollNext ==
    \/ TCall
    \/ TCancel
    \/ TTimeout
    \/ TSelect
    \/ TSend
    \/ TReceive
    \/ TReturn

PollSpec == DriverInit /\ [][PollNext]_vars

(* ------------------------------ properties ----------------------------- *)
\* the device calls an operation has made are writes and reads in turn
IsWrite(e) == e.k = "w"
IsRead(e) == e.k = "r"
ReleaseWrites(w) == {i \in 1..Len(w) : IsWrite(w[i]) /\ IsRelease(w[i].f)}
FetchWrites(w) == {i \in 1..Len(w) : IsWrite(w[i]) /\ Byte(w[i].f, 0) = OpFetch}

\* p is between its first frame and its return
Exchanging(p) ==
    \/ pc[p] \in {"send", "guard", "recv"}
    \/ pc[p] = "done" /\ wire[p] # <<>>

\* C1: at every instant at most one Engine operation is between its first
\* frame and its return, so no frame of one operation falls between the
\* first request and the last response of another.
C1_OneExchangeInFlight ==
    Cardinality({p \in Procs : Exchanging(p)}) <= 1

\* C1 witness: one caller is in its guard delay, having written a frame,
\* while another caller has invoked an operation and is held at the lock.
C1_Witness ==
    \E p, q \in Procs :
        /\ p # q
        /\ pc[p] = "guard" /\ wire[p] # <<>>
        /\ pc[q] = "waiting"

\* C2: an Engine operation that finds the connection state different from
\* Connected returns NotConnected, makes no device write or read and leaves
\* the connection state, the handle and the buffers as they were.
C2_NotConnectedNoIO ==
    [][\A p \in Procs :
         (pc[p] = "waiting" /\ pc'[p] # "waiting" /\ status # StatusConnected)
         => /\ pc'[p] = "done"
            /\ result'[p] = ErrNotConnected
            /\ wire'[p] = <<>>
            /\ status' = status
            /\ device' = device
            /\ request' = request
            /\ response' = response]_vars

\* C2 witness: an operation returned NotConnected on an Initialized device.
C2_Witness ==
    \E p \in Procs :
        /\ pc[p] = "done"
        /\ result[p] = ErrNotConnected
        /\ status = StatusInitialized
        /\ wire[p] = <<>>

\* the response to the first request of p's operation was read in full and
\* has byte 1 = 0x01
BusyAtFirst(p) ==
    /\ Len(wire[p]) >= 2
    /\ IsRead(wire[p][2])
    /\ wire[p][2].n = "ok"
    /\ Byte(wire[p][2].f, 1) = RespBusy

\* C3: a ReadFromAddr whose read-request response has byte 1 = 0x01 sends
\* no fetch-data frame, and returns an error identifiable as BusBusy after
\* exactly one release-bus request, with the caller's buffer untouched.
C3_ReadBusy ==
    \A p \in Procs :
        (op[p] = "ReadFromAddr" /\ BusyAtFirst(p))
        => /\ FetchWrites(wire[p]) = {}
           /\ buf[p] = arg[p].buffer
           /\ pc[p] = "done"
                => /\ ErrorIs(result[p], ErrBusBusy)
                   /\ Cardinality(ReleaseWrites(wire[p])) = 1

\* C3 witness: a busy ReadFromAddr made its release exchange (request
\* written, response read) and returned BusBusy.
C3_Witness ==
    \E p \in Procs :
        /\ pc[p] = "done"
        /\ op[p] = "ReadFromAddr"
        /\ BusyAtFirst(p)
        /\ Len(wire[p]) = 4
        /\ IsWrite(wire[p][3]) /\ IsRelease(wire[p][3].f)
        /\ IsRead(wire[p][4])
        /\ result[p] = ErrBusBusy

\* C4: a WriteToAddr whose response has byte 1 = 0x01 makes exactly one
\* release-bus request and returns BusBusy, never success.
C4_WriteBusy ==
    \A p \in Procs :
        (pc[p] = "done" /\ op[p] = "WriteToAddr" /\ BusyAtFirst(p))
        => /\ ErrorIs(result[p], ErrBusBusy)
           /\ Cardinality(ReleaseWrites(wire[p])) = 1

\* the fetch-data response of p's ReadFromAddr was read in full
FetchAnswered(p) ==
    /\ op[p] = "ReadFromAddr"
    /\ Len(wire[p]) >= 4
    /\ IsWrite(wire[p][3]) /\ Byte(wire[p][3].f, 0) = OpFetch
    /\ IsRead(wire[p][4]) /\ wire[p][4].n = "ok"

\* the data-length byte of that response is the sentinel or not the length
\* of the caller's buffer
BadSize(p) ==
    \/ Byte(wire[p][4].f, 3) # Len(arg[p].buffer)
    \/ Byte(wire[p][4].f, 3) = InvalidLen

\* C5 as stated: a ReadFromAddr whose fetch-data response has a data-length
\* byte different from len(buffer), or equal to 127, returns the
\* invalid-data-size error and leaves the buffer unchanged.
C5_BadSizeOriginal ==
    \A p \in Procs :
        (pc[p] = "done" /\ FetchAnswered(p) /\ BadSize(p))
        => /\ result[p] = ErrInvalidSize
           /\ buf[p] = arg[p].buffer

\* C5 amended: with such a data-length byte the buffer is unchanged and the
\* call returns the invalid-data-size error unless byte 1 of the response is
\* 0x41, which is checked first and gives the slave-read error.
C5_BadSize ==
    \A p \in Procs :
        (pc[p] = "done" /\ FetchAnswered(p) /\ BadSize(p))
        => /\ buf[p] = arg[p].buffer
           /\ result[p] = IF Byte(wire[p][4].f, 1) = RespSlaveErr
                            THEN ErrSlaveRead ELSE ErrInvalidSize

\* C5 witness: the device answered 127 for a 127-byte buffer and the call
\* returned the invalid-data-size error.
C5_Witness ==
    \E p \in Procs :
        /\ pc[p] = "done"
        /\ FetchAnswered(p)
        /\ Len(arg[p].buffer) = InvalidLen
        /\ Byte(wire[p][4].f, 3) = InvalidLen
        /\ Byte(wire[p][4].f, 1) = 0
        /\ result[p] = ErrInvalidSize

\* C6: when the ctx of an operation is cancelled before the timer of a
\* guard delay fires, the operation returns the cancellation error and
\* makes no further device call.
C6_CancelBeforeTimer ==
    [][\A p \in Procs :
         (pc[p] = "guard" /\ cancelled[p] /\ ~timerFired[p]
                          /\ pc'[p] # "guard")
         => /\ pc'[p] = "done"
            /\ ErrorIs(result'[p], ErrCanceled)
            /\ wire'[p] = wire[p]]_vars

\* C7: once the ctx is cancelled the timer branch of a guard select is
\* never taken, also when the timer has fired too.
C7_CancelWins ==
    [][\A p \in Procs :
         (pc[p] = "guard" /\ cancelled[p] /\ pc'[p] # "guard")
         => pc'[p] # "recv"]_vars

\* C8: an Engine operation invoked while the watchdog is inside connect()
\* (state Connecting) can return NotConnected at once, without waiting for
\* the attempt to end.
C8_FailFastDuringReconnect ==
    \A p \in Procs :
        (pc[p] = "waiting" /\ wpc = "opening" /\ status = StatusConnecting)
        => ENABLED (Begin(p) /\ result'[p] = ErrNotConnected)

\* the watchdog goroutine is in its loop (started, not returned)
WatchdogRunning == wpc \in {"connect", "opening", "loop", "select", "isconn"}

\* C9: when the handle of a Connected device stops working, the watchdog
\* notices on a later tick: the state leaves Connected (unless the watchdog
\* has been stopped).
C9_WatchdogDetectsFailure ==
    (status = StatusConnected /\ device = "stale" /\ WatchdogRunning)
        ~> (status # StatusConnected \/ ~WatchdogRunning)

\* C10 (tick, not connected): the tick starts one connect() attempt; the
\* attempt ends back in the loop, Connected if the open succeeded and
\* Initialized if it failed.
C10_TickAttempt ==
    [][/\ (wpc = "isconn" /\ wpc' # wpc /\ status # StatusConnected)
            => (wpc' = "connect" /\ wsite' = "tick")
       /\ (wpc = "connect" /\ wpc' # wpc) => wpc' = "opening"
       /\ (wpc = "opening" /\ wsite = "tick" /\ wpc' # wpc)
            => /\ wpc' = "loop"
               /\ status' = IF plugged THEN StatusConnected
                                       ELSE StatusInitialized
       /\ (wpc \in {"loop", "select"} /\ wpc' = "connect") => wsite' = "signal"
      ]_vars

\* C10 (tick, connected): the tick makes no attempt and leaves the state
\* and the handle as they are.
C10_TickConnected ==
    [][(wpc = "isconn" /\ wpc' # wpc /\ status = StatusConnected)
         => (wpc' = "loop" /\ status' = status /\ device' = device)]_vars

\* C10 (consequence): while the watchdog runs and the device stays
\* openable, the state becomes Connected.
C10_EventuallyConnected ==
    (plugged /\ WatchdogRunning)
        ~> (status = StatusConnected \/ ~plugged \/ ~WatchdogRunning)

\* C10: every tick that finds the device not connected makes exactly one
\* connect() attempt, a failed attempt leaves Initialized and is retried by
\* the next tick, a tick that finds it connected changes nothing, and an
\* openable device is eventually Connected.
C10_Watchdog ==
    /\ C10_TickAttempt
    /\ C10_TickConnected
    /\ C10_EventuallyConnected

\* C10 witness: after a failed attempt (state Initialized, no handle) a
\* tick found the device not connected and starts a connect() attempt
\* while the device is openable.
C10_Witness ==
    /\ wpc = "connect"
    /\ wsite = "tick"
    /\ status = StatusInitialized
    /\ plugged
    /\ device = "nil"

\* p's Reconnect has run up to its return
Reconnected(p) == pc[p] = "idle" /\ pc'[p] = "reconnected"

\* C11: a Reconnect on an MCP2221 whose Connect was never called returns
\* the NoReconnectChannel error, sends no signal and leaves the connection
\* state, the handle and the channel as they were.
C11_ReconnectWithoutWatchdog ==
    [][\A p \in Procs :
         (Reconnected(p) /\ wpc = "off")
         => /\ result'[p] = ErrNoReconnectChannel
            /\ UNCHANGED <<status, device, mx, reconnectChan, wpc, wsite>>]_vars

\* C11 witness: Reconnect is about to return NoReconnectChannel on a device
\* that Init connected and for which Connect was never called.
C11_Witness ==
    \E p \in Procs :
        /\ pc[p] = "reconnected"
        /\ result[p] = ErrNoReconnectChannel
        /\ wpc = "off"
        /\ status = StatusConnected

\* C12 (no blocking): a caller that invokes Reconnect while no goroutine
\* has panicked gets its return without waiting for anything.
C12_NeverBlocks ==
    \A p \in Procs : (pc[p] = "idle" /\ Running) => ENABLED ReconnectCall(p)

\* C12 (one attempt or none): with the watchdog running, a Reconnect
\* returns success; it starts a connect() attempt when the watchdog is
\* parked in its select and changes nothing otherwise.
C12_SignalOrDrop ==
    [][\A p \in Procs :
         (Reconnected(p) /\ reconnectChan = "open")
         => /\ result'[p] = ErrNil
            /\ UNCHANGED <<status, device, mx, reconnectChan>>
            /\ IF wpc = "select"
                 THEN wpc' = "connect" /\ wsite' = "signal"
                 ELSE UNCHANGED <<wpc, wsite>>]_vars

\* C12 (no queued request): the attempt a Reconnect started runs once and
\* ends in the loop; out of the loop, a further attempt starts only by a
\* Reconnect step taken then or through a tick.
C12_NoQueuedSignal ==
    [][/\ (wpc = "connect" /\ wpc' # wpc) => wpc' = "opening"
       /\ (wpc = "opening" /\ wpc' # wpc) => wpc' = "loop"
       /\ (wpc \in {"loop", "select"} /\ wpc' = "connect")
            => (wpc = "select" /\ \E p \in Procs : Reconnected(p))
       /\ (wpc \in {"loop", "select"} /\ wpc' # wpc)
            => wpc' \in {"select", "isconn", "connect", "exited", "crashed"}
      ]_vars

\* C12: Reconnect never blocks; issued while the watchdog is parked it
\* starts exactly one connect() attempt, issued while the watchdog is busy
\* it is dropped and returns success, and no dropped request is run later.
C12_ReconnectCoalesces ==
    /\ []C12_NeverBlocks
    /\ C12_SignalOrDrop
    /\ C12_NoQueuedSignal

\* C12 witness: while the watchdog is inside the connect() attempt that a
\* Reconnect started, two callers have had their Reconnect return success.
C12_Witness ==
    /\ wpc = "opening"
    /\ wsite = "signal"
    /\ \E p, q \in Procs :
         /\ p # q
         /\ pc[p] = "reconnected" /\ result[p] = ErrNil
         /\ pc[q] = "reconnected" /\ result[q] = ErrNil

\* C13: the watchdog leaves its loop only on the cancellation of the
\* parent context, and then it has closed the device handle and terminated,
\* whatever the state it was cancelled in; a terminated watchdog stays
\* terminated (no further connect() attempt).
C13_WatchdogTerminates ==
    [][/\ (WatchdogRunning /\ ~WatchdogRunning')
            => (parentDone /\ wpc' = "exited" /\ device' = "closed")
       /\ (wpc = "exited") => (wpc' = "exited")
      ]_vars

\* device calls of an operation that did not transfer a whole report
FailedCalls(w) == {i \in 1..Len(w) : w[i].n # "ok"}

\* C14: a short write, or a short or failed read, in any exchange of an
\* Engine operation (the release exchange of Release/ReleaseBus included)
\* is the operation's last device call and makes it return an error; an
\* operation writes each of its request frames at most once, with at most
\* one release request besides.
C14_TransportFaultIsFatal ==
    \A p \in Procs :
        /\ FailedCalls(wire[p]) \subseteq {Len(wire[p])}
        /\ Cardinality(ReleaseWrites(wire[p])) <= 1
        /\ Cardinality(FetchWrites(wire[p])) <= 1
        /\ Cardinality({i \in 1..Len(wire[p]) : IsWrite(wire[p][i])}) <= 2
        /\ (pc[p] = "done" /\ FailedCalls(wire[p]) # {})
             => result[p] # ErrNil

\* the first frame a WriteToAddr of p handed to d.device.Write
WrittenFrame(p) == wire[p][1].f

\* the payload bytes a written frame carries for a length field n
Carried(f, n) == [j \in 1..n |-> Byte(f, 3 + j)]

\* C15: a WriteToAddr with more than 60 payload bytes writes no frame and
\* returns an error, and the length field of every frame WriteToAddr
\* writes is the number of payload bytes the frame carries.
C15_PayloadTooLarge ==
    \A p \in Procs :
        (op[p] = "WriteToAddr")
        => /\ (Len(arg[p].buffer) > DataCapacity)
                => /\ wire[p] = <<>>
                   /\ pc[p] = "done" => result[p] # ErrNil
           /\ (wire[p] # <<>>)
                => /\ Uint16(WrittenFrame(p), 1) <= DataCapacity
                   /\ Carried(WrittenFrame(p), Uint16(WrittenFrame(p), 1))
                        = arg[p].buffer

\* C16: for a 7-bit address and a payload of at most 60 bytes the frame
\* WriteToAddr writes has byte 0 = 0x90, the payload length in bytes 1-2
\* (little endian), address << 1 in byte 3 and the payload from byte 4 on,
\* so that byte 3 >> 1 and the 'length' bytes from byte 4 give back the
\* caller's address and payload.
C16_WriteFrameRoundTrip ==
    \A p \in Procs :
        (op[p] = "WriteToAddr" /\ wire[p] # <<>>
                               /\ arg[p].address < 128
                               /\ Len(arg[p].buffer) <= DataCapacity)
        => LET f == WrittenFrame(p)
               n == Len(arg[p].buffer)
           IN  /\ Byte(f, 0) = OpWrite
               /\ Byte(f, 1) = n % 256 /\ Byte(f, 2) = n \div 256
               /\ Byte(f, 3) = 2 * arg[p].address
               /\ \A j \in 1..n : Byte(f, 3 + j) = arg[p].buffer[j]
               /\ Byte(f, 3) \div 2 = arg[p].address
               /\ Byte(f, 3) % 2 = 0
               /\ Carried(f, Uint16(f, 1)) = arg[p].buffer

\* C16 witness: a frame carrying 60 payload bytes for address 0x7F was
\* written.
C16_Witness ==
    \E p \in Procs :
        /\ op[p] = "WriteToAddr"
        /\ wire[p] # <<>>
        /\ wire[p][1].n = "ok"
        /\ arg[p].address = 127
        /\ Len(arg[p].buffer) = DataCapacity

\* p's Status call returned a status, decoded from the response it read
StatusDone(p) ==
    /\ pc[p] = "done" /\ op[p] = "Status" /\ result[p] = ErrNil
    /\ Len(wire[p]) = 2 /\ IsRead(wire[p][2])

\* C17: the status a Status call returns is decoded, by fixed offsets, from
\* the response read in that call: sizes from bytes 9-10 and 11-12 (little
\* endian), counter 13, divider 14, timeout 15, address 16, read pending
\* 25; bytes 0A 00, 0A 00, 02, 01, 05, 1A, 00 give 10, 10, 2, 1, 5, 0x1A, 0.
C17_StatusDecode ==
    \A p \in Procs :
        StatusDone(p)
        => LET f == wire[p][2].f
               s == StatusReturned(p)
           IN  /\ s.LastI2CRequestedSize = Byte(f, 9) + 256 * Byte(f, 10)
               /\ s.LastI2CTransferredSize = Byte(f, 11) + 256 * Byte(f, 12)
               /\ s.I2CDataBufferCounter = Byte(f, 13)
               /\ s.I2CSpeedDivider = Byte(f, 14)
               /\ s.I2CTimeout = Byte(f, 15)
               /\ s.I2CAddress = Byte(f, 16)
               /\ s.ReadPending = Byte(f, 25)
               /\ (<<Byte(f, 9), Byte(f, 10), Byte(f, 11), Byte(f, 12),
                      Byte(f, 13), Byte(f, 14), Byte(f, 15), Byte(f, 16),
                      Byte(f, 25)>> = <<10, 0, 10, 0, 2, 1, 5, 26, 0>>)
                    => (<<s.LastI2CRequestedSize, s.LastI2CTransferredSize,
                          s.I2CDataBufferCounter, s.I2CSpeedDivider,
                          s.I2CTimeout, s.I2CAddress, s.ReadPending>>
                        = <<10, 10, 2, 1, 5, 26, 0>>)

\* C17 witness: a Status call read the response of the scenario and
\* returned {10, 10, 2, 1, 5, 0x1A, 0}.
C17_Witness ==
    \E p \in Procs :
        /\ StatusDone(p)
        /\ Uint16(wire[p][2].f, 9) = 10
        /\ Byte(wire[p][2].f, 16) = 26
        /\ StatusReturned(p).LastI2CRequestedSize = 10
        /\ StatusReturned(p).I2CAddress = 26


(* --------------------------- MCP23017 claims ---------------------------- *)
\* the bus attempts of an operation: its WriteToAddr and ReadFromAddr calls
IsAttempt(c) == c.call # "Release"
Busy(c) == IsAttempt(c) /\ ErrorIs(c.err, ErrBusBusy)
Fatal(c) == IsAttempt(c) /\ c.err # ErrNil /\ ~ErrorIs(c.err, ErrBusBusy)

\* C18: in every MCP23017 operation with a retry loop, a bus attempt that
\* fails with an error that is not BusBusy is the last call the operation
\* makes on the bus (no further attempt, no Release), and the operation
\* returns that error.
C18_FatalErrorAborts ==
    \A g \in Users : \A k \in 1..Len(xcalls[g]) :
        Fatal(xcalls[g][k]) =>
            /\ k = Len(xcalls[g])
            /\ xpc[g] = "done"
            /\ xres[g] # NilErr
            /\ Cause(xres[g]) = xcalls[g][k].err
            /\ xres[g][1] = XMsg(xop[g])

\* a register read whose ReadFromAddr failed with ErrNotConnected, and a
\* register write whose WriteToAddr did
C18_Witness ==
    \E g, h \in Users :
        /\ xpc[g] = "done" /\ xop[g] = "ReadA"
        /\ xcalls[g] = <<BusCall("WriteToAddr", ErrNil),
                         BusCall("ReadFromAddr", ErrNotConnected)>>
        /\ xpc[h] = "done" /\ xop[h] = "InitA"
        /\ xcalls[h] = <<BusCall("WriteToAddr", ErrNotConnected)>>

\* number of BusBusy attempts among the first k calls
RECURSIVE BusyUpTo(_, _)
BusyUpTo(s, k) ==
    IF k = 0 THEN 0
    ELSE BusyUpTo(s, k - 1) + (IF Busy(s[k]) THEN 1 ELSE 0)

\* calls that start an attempt: every attempt starts with a WriteToAddr
AttemptsOf(s) == {k \in 1..Len(s) : s[k].call = "WriteToAddr"}

\* C19: with the retry limit of NewMCP23017, an attempt that returns
\* BusBusy while retries remain is followed by Release and by another
\* attempt; an operation whose first attempt was busy has made two attempts
\* when it returns, and returns nil if the second succeeded.
C19_RetryOnceAfterBusy ==
    \A g \in Users :
        xpc[g] = "done" =>
            \A k \in 1..Len(xcalls[g]) :
                (Busy(xcalls[g][k]) /\ BusyUpTo(xcalls[g], k) <= RetryLimit) =>
                    /\ Len(xcalls[g]) >= k + 2
                    /\ xcalls[g][k + 1].call = "Release"
                    /\ xcalls[g][k + 2].call = "WriteToAddr"
                    /\ Cardinality(AttemptsOf(xcalls[g])) >= 2
                    /\ (~Busy(xcalls[g][Len(xcalls[g])])
                          /\ ~Fatal(xcalls[g][Len(xcalls[g])])
                            => xres[g] = NilErr)


(* ---------------------------- AGS02MA claims ---------------------------- *)
\* C20: however many goroutines call operations of one AGS02MA, at most
\* one WriteToAddr / ReadFromAddr of the sensor is in progress on the bus.
C20_OneBusCallInProgress ==
    /\ Cardinality(InBusCall) <= 1
    /\ \A g \in InBusCall : smx = g

\* a goroutine is inside a bus call while another has passed its wait and
\* stands at s.mx.Lock()
C20_Witness ==
    \E g, h \in Users :
        /\ g # h
        /\ spc[g] \in {"bus1", "bus2"}
        /\ spc[h] \in {"lock1", "lock2"}


\* a goroutine starts a WriteToAddr / ReadFromAddr of the sensor
BusStarts(g) == spc[g] \in {"lock1", "lock2"} /\ spc'[g] \in {"bus1", "bus2"}

\* on a fresh sensor the channel waitForDelay selects on is closed
C21_FirstWithoutWaiting ==
    (sgate = 0 /\ spc[SeqUser] = "wait") => sch[SeqUser] \in sclosed

\* no bus operation starts before the delay scheduled last has elapsed
C21_WaitsForDelay ==
    [][BusStarts(SeqUser) => (sgate = 0 \/ sgate \in selapsed)]_vars

\* scheduleDelay returns at once: the operation has returned while its
\* delay is still running
C21_ReturnsWithoutWaiting ==
    [][(spc[SeqUser] = "sched" /\ spc'[SeqUser] = "done")
         => (sgate' \notin selapsed' /\ sgate' \notin sclosed')]_vars

\* C21: on one AGS02MA used sequentially, the first operation on a fresh
\* sensor issues its bus operation without waiting; after an operation that
\* scheduled a delay (a successful Configure, a successful TVOC read) the
\* next operation issues no bus operation until that delay has elapsed; and
\* the operation that scheduled the delay returns without waiting for it.
C21_DelayGate ==
    /\ []C21_FirstWithoutWaiting
    /\ C21_WaitsForDelay
    /\ C21_ReturnsWithoutWaiting


\* the select of waitForDelay is left by goroutine g, whose ctx is cancelled,
\* while the channel it waits on is the one in delayDone and is not closed
CancelledWhilePending(g) ==
    /\ spc[g] = "wait" /\ spc'[g] # "wait"
    /\ scancel[g]
    /\ sch[g] = sgate /\ sch[g] \notin sclosed

\* the operation makes no bus call and leaves the delay gate as it is
NoBusNoGate(g) ==
    /\ spc'[g] = "done"
    /\ scalls'[g] = <<>>
    /\ <<smx, sbuf, sgate, sclosed, selapsed, sdctx>>' =
          <<smx, sbuf, sgate, sclosed, selapsed, sdctx>>

CallsOf(g, c) == SelectSeq(scalls[g], LAMBDA r : r.call = c)

\* C23: GetTVOC on an AGS02MA created without a TVOC-mode option makes
\* exactly one ReadFromAddr on address 0x1A and no WriteToAddr, and on a
\* response with the RDY bit clear returns the 24-bit big-endian value of
\* bytes 1..3 of the response.
C23_DefaultGetTVOCDirectRead ==
    \A g \in Users :
        (sapi[g] = "GetTVOC" /\ spc[g] \in {"decode", "sched", "done"}) =>
            /\ CallsOf(g, "WriteToAddr") = <<>>
            /\ Len(CallsOf(g, "ReadFromAddr")) <= 1
            /\ \A i \in 1..Len(scalls[g]) :
                  scalls[g][i].addr = ags02maAddress
            /\ (spc[g] = "sched" /\ sbuf[1] % 2 # statusBitRDY) =>
                  /\ Len(CallsOf(g, "ReadFromAddr")) = 1
                  /\ sval[g] = ppb(sbuf)

\* Close returns to its caller from the select of waitForDelay
CloseReturns(g) ==
    /\ sop[g] = "Close"
    /\ spc[g] = "wait" /\ spc'[g] = "done"

\* C24: Close returns only after the delay scheduled by the most recent
\* successful operation has elapsed, or when the ctx given to Close is
\* cancelled; it makes no bus call.
C24_CloseWaitsForDelay ==
    [][\A g \in Users :
          CloseReturns(g) =>
              /\ \/ sch[g] = 0
                 \/ sch[g] \in selapsed
                 \/ scancel[g]
              /\ scalls'[g] = <<>>]_vars

(* ------------------ MCP2221: connection state and handle --------------- *)
\* the writer of a step holds d.mx: it held it before the step or took it
\* in the step
SupervisorHoldsLock ==
    \/ mx \in {WdHolder, InitHolder}
    \/ mx' \in {WdHolder, InitHolder}

\* C25: every write to the connection state (by Init, by the watchdog
\* goroutine of Connect, by connect()) is made by a holder of d.mx, so an
\* Engine operation that holds d.mx never sees the state change during its
\* exchanges.
C25_StatusWrittenUnderLock ==
    [][/\ status' # status => SupervisorHoldsLock
       /\ \A p \in Procs :
             (mx = p /\ mx' = p) => status' = status]_vars

\* C26: the fetch-data frame (opcode 0x40) ReadFromAddr sends after a
\* read-request that was not answered busy carries no address and no
\* length: every byte of the frame but byte 0 is zero, whatever the address
\* and the buffer length of the call.
C26_FetchFrameBare ==
    \A p \in Procs :
        op[p] = "ReadFromAddr" =>
            \A i \in FetchWrites(wire[p]) :
                \A k \in Idx \ {0} : Byte(wire[p][i].f, k) = 0

\* a handle hid.OpenFirst returned and nobody closed
Unclosed(dev) == dev \in {"open", "stale"}

\* connect() or Init() returns from hid.OpenFirst and assigns d.device
AssignsHandle ==
    \/ wpc = "opening" /\ wpc' # "opening"
    \/ ipc = "opening" /\ ipc' # "opening"

\* C27: at most one device handle is open at any time: whenever connect()
\* acquires a new handle (on a tick or on a Reconnect signal, also one sent
\* while the state is Connected) the handle held before, if any, has been
\* closed first, and no handle is left open and unreferenced.
C27_OneHandleOpen ==
    [][AssignsHandle => ~Unclosed(device)]_vars

\* the state Connected goes with a handle that is present and not closed
ConnectedHasHandle == status = StatusConnected => Unclosed(device)

\* caller p passes the connected check of an Engine operation
PassesCheck(p) == pc[p] = "waiting" /\ pc'[p] = "send"

\* C28: in every reachable state, Connected implies that the device handle
\* is present and open; after the watchdog closed the handle on the
\* cancellation of its ctx no Engine operation passes the connected check
\* and writes to or reads from the closed handle.
C28_ConnectedMeansOpen ==
    /\ []ConnectedHasHandle
    /\ [][\A p \in Procs : PassesCheck(p) => device # "closed"]_vars

\* d.device is closed or assigned in this step (an unplugged device leaves
\* the handle as it is)
HandleTouched ==
    /\ device' # device
    /\ ~(device = "open" /\ device' = "stale")

\* C30: the device handle is never closed or replaced while an Engine
\* operation is inside its exchange sequence, between taking and releasing
\* d.mx: neither a reconnect of the watchdog nor its shutdown on the
\* cancellation of its ctx touches the handle during the send, the guard
\* delay or the receive of an operation.
C30_HandleStableInExchange ==
    [][\A p \in Procs :
          (mx = p /\ pc[p] \in {"send", "guard", "recv"}) =>
              ~HandleTouched]_vars

\* C29: every response an Engine operation interprets was produced by the
\* device in reply to a request that same operation wrote: after operations
\* that wrote a request and returned without reading (cancelled in the
\* guard delay, failed on the transport, Reset), the next operation never
\* consumes a response left over from an earlier request.
C29_OwnResponsesOnly ==
    \A i \in 1..Len(hgot) : hgot[i] = hn

(* ------------------------- MCP2221: further claims --------------------- *)
\* the goroutine Connect started has not returned
WatchdogAlive == wpc \notin {"off", "exited", "crashed"}

\* caller p executes Reconnect, Connect having returned
ReconnectsAfterConnect(p) ==
    /\ pc[p] = "idle" /\ pc'[p] \in {"reconnected", "panic"}
    /\ wpc # "off"

\* C31: a Reconnect called at any time after Connect returned, also right
\* after it returned and after the watchdog ended on the cancellation of its
\* ctx, returns without blocking and without crashing, and never returns
\* NoReconnectChannel while the watchdog goroutine is running.
C31_ReconnectAfterConnect ==
    /\ [](\A p \in Procs :
            (pc[p] = "idle" /\ Running) => ENABLED ReconnectCall(p))
    /\ [][\A p \in Procs :
            ReconnectsAfterConnect(p) =>
                /\ pc'[p] = "reconnected"
                /\ WatchdogAlive => result'[p] # ErrNoReconnectChannel]_vars

\* caller p is inside an Engine operation, past d.mx.Lock()
InOperation(p) == pc[p] \in {"send", "guard", "recv", "done"}

\* d.mx is held by the goroutines that are between a Lock and its Unlock,
\* and by nobody else
C32_HeldOnlyInside ==
    /\ \A p \in Procs : mx = p <=> InOperation(p)
    /\ mx = WdHolder <=> wpc = "opening"
    /\ mx = InitHolder <=> ipc = "opening"

\* an Engine operation returns with d.mx unlocked, whatever it returns
C32_UnlocksOnReturn ==
    [][\A p \in Procs :
          (InOperation(p) /\ ~InOperation(p)') =>
              (pc[p] = "done" /\ mx = p /\ mx' = Free)]_vars

\* a blocked Engine operation gets d.mx and returns; IsConnected and
\* connect() of the watchdog get d.mx and complete (a panic of a goroutine
\* ends the process and all its goroutines)
C32_EveryoneCompletes ==
    /\ \A p \in Procs :
          /\ (pc[p] = "waiting") ~> (InOperation(p) \/ Crashed)
          /\ InOperation(p) ~> (pc[p] = "idle" \/ Crashed)
    /\ (wpc = "isconn") ~> (wpc # "isconn" \/ Crashed)
    /\ (wpc = "connect") ~> (wpc = "loop" \/ Crashed)

\* C32: every Engine operation releases d.mx on every exit path (success,
\* NotConnected, transport error, busy, invalid size, cancellation), so no
\* sequence of operations leaves it held; under fair scheduling every
\* blocked Engine operation, every IsConnected check and every connect()
\* of the watchdog eventually gets the lock and completes.
C32_LockAlwaysReleased ==
    /\ []C32_HeldOnlyInside
    /\ C32_UnlocksOnReturn
    /\ C32_EveryoneCompletes

\* a caller is blocked in Lock while another one, cancelled in its guard
\* delay, is about to return with d.mx held
C32_Witness ==
    \E p, q \in Procs :
        /\ pc[p] = "waiting"
        /\ pc[q] = "done" /\ mx = q /\ result[q] = ErrCanceled

\* C33: whenever ReadFromAddr returns success, every one of the
\* len(buffer) bytes of the caller's buffer has been overwritten with the
\* corresponding data byte of the fetch-data response (bytes 4..4+len-1),
\* for every buffer length success is possible for, also beyond 60.
C33_WholeBufferFilled ==
    \A p \in Procs :
        (pc[p] = "done" /\ op[p] = "ReadFromAddr" /\ result[p] = ErrNil) =>
            \A j \in 1..Len(buf[p]) :
                /\ j + 3 \in Idx
                /\ buf[p][j] = Byte(response, j + 3)

\* the request frames of operation o called with a on an MCP2221 that has
\* made no operation before: its first frame, and the release or fetch
\* frame built over it
FreshMain(o, a) == BuildMain(Zero64, o, a)
FreshNext(o, a, f) ==
    IF IsRelease(f) THEN BuildRelease(FreshMain(o, a))
    ELSE BuildFetch(FreshMain(o, a))

\* C34: each request frame written to the device is a function of the
\* arguments of the current operation only: whatever operations were made
\* before (a WriteToAddr with a 60-byte payload, say), the frames written
\* for an operation are byte for byte those written for it on a new
\* MCP2221.
C34_FramesDependOnArgsOnly ==
    \A p \in Procs :
        \A i \in 1..Len(wire[p]) :
            IsWrite(wire[p][i]) =>
                wire[p][i].f = IF i = 1 THEN FreshMain(op[p], arg[p])
                               ELSE FreshNext(op[p], arg[p], wire[p][i].f)

(* ----------------------- MCP23017: further claims ---------------------- *)
\* g has written the register address in readRegistry and has not made
\* the read that follows it
BetweenPointerAndRead(g) == xpc[g] = "regread"

\* goroutine h makes a call on m.transport in this step
MakesBusCall(h) == Len(xcalls'[h]) > Len(xcalls[h])

\* C35: on one MCP23017 used by several goroutines the write of the
\* register address and the one-byte read that follows it in a register
\* read are an atomic pair on the bus for the operations of the expander:
\* no WriteToAddr of a concurrent InitA/B, PullUpA/B or WriteSettingsA/B and
\* no Release of a concurrent retry loop occurs between them.
C35_RegisterReadAtomic ==
    [][\A g, h \in Users :
          (g # h /\ BetweenPointerAndRead(g)) => ~MakesBusCall(h)]_vars

\* C38: InitB sets the direction register of port B: the frame it writes
\* addresses IODIRB of the current bank, and not IODIRA, and carries the
\* given in/out mask, so that InitA followed by InitB leaves the direction
\* of port A as InitA set it.
C38_InitBWritesIODIRB ==
    \A g \in Users :
        xop[g] = "InitB" =>
            \A k \in 1..Len(xsent[g]) :
                /\ xsent[g][k] = <<BankAddr(Bank, "IODIRB"), xarg[g]>>
                /\ xsent[g][k][1] # BankAddr(Bank, "IODIRA")

---------------------------------------------------------------------------
\* AGS02MA: further claims

\* goroutine g runs an operation made of a register write and a read, has
\* returned from the write and has not yet started the read
BetweenWriteAndRead(g) ==
    sop[g] \in SWriteReadOps /\ spc[g] \in {"tx", "lock2"}

\* a bus call of goroutine h returns in this step
SBusCallReturns(h) == Len(scalls'[h]) > Len(scalls[h])

\* the register write and the read of one operation are not separated by a
\* bus call of another operation
C36_WriteReadTogether ==
    [][\A g, h \in Users :
          (g # h /\ BetweenWriteAndRead(g)) => ~SBusCallReturns(h)]_vars

\* s.buf keeps the bytes of the ReadFromAddr of goroutine g until g has
\* decoded them
C36_DecodesOwnBytes ==
    [][\A g \in Users :
          (spc[g] = "decode" /\ spc'[g] = "decode") => sbuf' = sbuf]_vars

\* C36: on one AGS02MA used by several goroutines, the register write and
\* the read that follows it in GetTVOCWithRegisterWrite, ReadVersion,
\* ReadResistance and Calibrate are not separated by a bus operation of
\* another operation on the same sensor, and the 5-byte buffer an operation
\* decodes holds the bytes read by its own ReadFromAddr.
C36_RegisterWriteOpsSerialized ==
    /\ C36_WriteReadTogether
    /\ C36_DecodesOwnBytes

\* no goroutine starts a bus operation before the delay scheduled last has
\* elapsed
C37_StartsAfterDelay ==
    [][\A g \in Users :
          BusStarts(g) => (sgate = 0 \/ sgate \in selapsed)]_vars

\* goroutine g has started its operation on the bus and has not yet
\* scheduled its delay or returned
PastTheGate(g) == spc[g] \in {"bus1", "tx", "lock2", "bus2", "decode", "sched"}

\* a goroutine does not start its operation on the bus while another one,
\* let through the same gate, is still to schedule its delay
C37_OneThroughTheGate ==
    [][\A g, h \in Users :
          (g # h /\ spc[h] = "lock1" /\ spc'[h] = "bus1")
              => ~(PastTheGate(g) /\ sch[g] = sch[h])]_vars

\* the channel of a delay is closed only once the delay has elapsed
C37_ClosedOnlyWhenElapsed == \A c \in 1..sgate : c \in sclosed => c \in selapsed

\* C37: under any interleaving of callers on one AGS02MA, between the
\* completion of a successful operation that schedules a delay and the start
\* of the next bus operation by any caller the delay has fully elapsed; two
\* callers waiting on the same gate never both proceed back-to-back without
\* a delay between their bus operations; and cancelling the ctx of the
\* operation that scheduled the delay does not open the gate early.
C37_DelayGateConcurrent ==
    /\ C37_StartsAfterDelay
    /\ C37_OneThroughTheGate
    /\ []C37_ClosedOnlyWhenElapsed

---------------------------------------------------------------------------
\* MCP2221: waitForI2CTransfer

\* a status exchange of the helper ends in this step with a status
Polled == tpc = "recv" /\ tpolls' = tpolls + 1

\* success is returned for a status whose two sizes are equal
C39_SuccessWhenTransferred ==
    (tpc = "done" /\ tres = ErrNil)
        => /\ tstatus # NoStatus
           /\ tstatus.LastI2CRequestedSize = tstatus.LastI2CTransferredSize

\* a poll that reports another address ends the helper with
\* ErrI2CAddressMismatch, and one that reports sizes that differ is
\* followed by the next poll
C39_AfterPoll ==
    [][Polled =>
         IF tstatus'.I2CAddress \notin {0, taddr}
         THEN tpc' = "done" /\ tres' = ErrI2CAddressMismatch
         ELSE (tstatus'.LastI2CRequestedSize # tstatus'.LastI2CTransferredSize)
                 => tpc' = "select"]_vars

\* ErrI2CStatusTimeout is returned once maxDelay has elapsed, and the error
\* of the ctx once it is cancelled
C39_TimeoutAndCancel ==
    /\ (tpc = "done" /\ tres = ErrI2CStatusTimeout) => ttimeout
    /\ (tpc = "done" /\ tres = ErrCanceled) => tcancel

\* the helper does not panic
C39_NoCrash == tpc # "crashed"

\* C39: waitForI2CTransfer polls the status until the last requested size
\* equals the last transferred size and then returns success; it returns
\* ErrI2CAddressMismatch as soon as a poll reports activity for another
\* address, ErrI2CStatusTimeout if the maximum wait elapses first, and the
\* error of the ctx if it is cancelled first; a status exchange that fails
\* during the polling never crashes the helper.
C39_PollsUntilTransferred ==
    /\ []C39_SuccessWhenTransferred
    /\ C39_AfterPoll
    /\ []C39_TimeoutAndCancel
    /\ []C39_NoCrash

====
